---- MODULE Spec2Model ----
(***************************************************************************)
(* A model of the analysis worker of AI_TrendPulse: the streaming          *)
(* per-platform bounded selection of analyze_task, the embedding sampler,  *)
(* the validate-then-repair protocol around the LLM, and the commit of the *)
(* analysis record.                                                        *)
(***************************************************************************)
EXTENDS Integers, Sequences, FiniteSets, TLC

VARIABLES
    pc,               \* position of analyze_task / _run_analysis
    settings,         \* the Settings values the run reads
    total,            \* analyze_task: total
    platform_counts,  \* analyze_task: platform_counts
    candidate_heaps,  \* analyze_task: candidate_heaps (platform -> heap list)
    heap_counter,     \* analyze_task: heap_counter
    engagements,      \* analyze_task: engagements
    total_engagement, \* analyze_task: total_engagement
    candidate_items,  \* _run_analysis: candidate_items (the sampler's input)
    top_items,        \* _run_analysis: top_items
    sample_ret,       \* history: how EmbeddingSampler.sample ended
    quota,            \* _cluster_and_select at line 113: n, target_count, cluster_sizes, desired
    embed_calls,      \* history: SentenceTransformer.encode calls of this run
    ex,               \* the analyze_json_with_repair call in progress
    mm,               \* the MermaidGenerator.generate call in progress
    oracle_calls,     \* history: LLMClient.chat calls issued by this run
    seen,             \* history: validated rows seen so far, per platform
    lastDrop,         \* history: what the last loop iteration dropped
    maxDropped,       \* history: highest score dropped so far, per platform
    arrived,          \* history: the validated items of each platform, in order
    run,              \* the task row in memory, the locals of the run, the session
    db                \* what is committed: task status, AnalysisResult row, alerts

vars == <<pc, settings, total, platform_counts, candidate_heaps, heap_counter, engagements,
          total_engagement, candidate_items, top_items, sample_ret, quota, embed_calls,
          ex, mm, oracle_calls, seen, lastDrop, maxDropped, arrived, run, db>>

sampleVars == <<candidate_items, top_items, sample_ret, quota, embed_calls>>

streamVars == <<total, platform_counts, candidate_heaps, heap_counter, engagements,
                total_engagement,
                seen, lastDrop, maxDropped, arrived>>

(***************************************************************************)
(* Bounds of the model and the input universes.                            *)
(***************************************************************************)
MaxStream == 4

Platforms == {"reddit", "youtube", "x"}

StreamPlatforms == {"reddit", "youtube"}

UpvoteValues == {0, 1, 2}

CapacityValues == {1, 2}

NoDrop == [kind |-> "none"]

NoValue == [tag |-> "none"]

\* The locals of one call of analyze_json_with_repair, with the history
\* fields draft (what became of the first reply) and last (the last reply).

NewCall(kind, expected) ==
    [st |-> "call", calls |-> 0, kind |-> kind, expected |-> expected,
     draft |-> "none", last |-> NoValue, error |-> "", result |-> NoValue]

\* The locals of one call of MermaidGenerator.generate.
NewMermaid(keyword, key_opinions, sentiment_score) ==
    [st |-> "call", calls |-> 0, keyword |-> keyword, key_opinions |-> key_opinions,
     sentiment_score |-> sentiment_score, last |-> NoValue, via |-> "none",
     result |-> <<>>]

\* no quota step has run
NoQuota == [n |-> 0, target_count |-> 0, cluster_sizes |-> <<>>, desired |-> <<>>]

NoSample == [path |-> "none", raised |-> FALSE, n |-> 0, target |-> 0, provider |-> "unused"]

IdleEx == [NewCall("none", 0) EXCEPT !.st = "idle"]

IdleMm == [NewMermaid("", <<>>, 50) EXCEPT !.st = "idle"]

Max2(a, b) == IF a >= b THEN a ELSE b

Range(s) == {s[i] : i \in 1..Len(s)}

\* The analysis_results row: NoRecord, or a value for each column written.
NoRecord == [f \in {} |-> 0]

\* Nothing of the run has happened yet: task.semantic_sampling, the rows of
\* the task (n rows; bad: none of them passes the validity filter), and
\* whether an analysis_results row of an earlier run exists.
NewRun(dataset, semantic) ==
    [dataset |-> dataset, semantic |-> semantic, platform_order |-> <<>>,
     i |-> 0, sentiment_results |-> <<>>, sentiment_score |-> 50,
     tallies |-> NoValue, clustering_result |-> NoValue, result |-> NoValue,
     fallbacks |-> {},
     exc |-> "", session |-> NoRecord, task_status |-> "RUNNING", task_error |-> ""]

NewDb(record) ==
    [task_status |-> "RUNNING", error_message |-> "", progress |-> 50,
     record |-> record, initial |-> record, writer |-> "none", record_commits |-> 0,
     alerts |-> 0]

IdleRun == NewRun([n |-> 0, bad |-> FALSE], FALSE)

taskVars == <<run, db>>

Min2(a, b) == IF a <= b THEN a ELSE b

(***************************************************************************)
(* DataPreprocessor._get_engagement_score                                  *)
(***************************************************************************)
GetEngagementScore(item) ==
    item.metrics.upvotes + item.metrics.num_comments * 2
        + (item.metrics.views \div 1000) + item.metrics.likes * 10

\* The outcome of DataPreprocessor._is_valid for the item: the text, author
\* and detected language it depends on are summed up in the item's flag.
IsValid(item) == item.valid

(***************************************************************************)
(* heapq on (score, heap_counter, item) tuples.  Lists are 1-based here;   *)
(* the counter is unique, so the item itself is never compared.            *)
(***************************************************************************)
EntryLess(a, b) == a[1] < b[1] \/ (a[1] = b[1] /\ a[2] < b[2])

RECURSIVE SiftDown(_, _, _, _)
SiftDown(h, startpos, pos, newitem) ==
    IF pos > startpos /\ EntryLess(newitem, h[pos \div 2])
    THEN SiftDown([h EXCEPT ![pos] = h[pos \div 2]], startpos, pos \div 2, newitem)
    ELSE [h EXCEPT ![pos] = newitem]

RECURSIVE SiftUpFrom(_, _, _, _)
SiftUpFrom(h, startpos, pos, newitem) ==
    LET left == 2 * pos
        right == 2 * pos + 1
        child == IF right <= Len(h) /\ ~EntryLess(h[left], h[right])
                 THEN right ELSE left
    IN  IF left <= Len(h)
        THEN SiftUpFrom([h EXCEPT ![pos] = h[child]], startpos, child, newitem)
        ELSE SiftDown(h, startpos, pos, newitem)

HeapPush(h, entry) == SiftDown(Append(h, entry), 1, Len(h) + 1, entry)

HeapReplace(h, entry) == SiftUpFrom([h EXCEPT ![1] = entry], 1, 1, entry)

\* len(heap) < analysis_candidate_limit
HasRoomTooMany(heap, limit) == Len(heap) <= limit

HasRoom(heap, limit) == Len(heap) < limit

\* score > heap[0][0]
EvictsAlways(score, heap) == TRUE

EvictsOnTie(score, heap) == score >= heap[1][1]

Evicts(score, heap) == score > heap[1][1]

\* lines 90-92 on a heap that is empty and has no room: heap[0] raises IndexError
HeadOfEmpty(heap, limit) == ~HasRoom(heap, limit) /\ heap = <<>>

\* The body of the loop over raw_query for one validated item.
OfferToHeap(heap, limit, score, counter, item) ==
    IF HasRoom(heap, limit)
    THEN HeapPush(heap, <<score, counter, item>>)
    ELSE IF Evicts(score, heap)
         THEN HeapReplace(heap, <<score, counter, item>>)
         ELSE heap

\* _weighted_engagement_from_metrics for a row without published_at (weight 1.0)
WeightedEngagementFromMetrics(metrics) ==
    metrics.upvotes + metrics.likes + (metrics.views \div 100) + metrics.num_comments * 5

HeapOfShared(heaps, platform) == heaps["reddit"]

\* line 88: heap = candidate_heaps[platform_value]
HeapOf(heaps, platform) == heaps[platform]

\* CollectedItem(...) built from one RawData row.
ItemOfRow(r) == r

(***************************************************************************)
(* History of what an iteration dropped, kept beside the program state.    *)
(***************************************************************************)
DropOf(heap, newheap, entry) ==
    LET before == {heap[i] : i \in 1..Len(heap)} \cup {entry}
        after == {newheap[i] : i \in 1..Len(newheap)}
        gone == before \ after
    IN  IF gone = {} THEN NoDrop
        ELSE LET e == CHOOSE x \in gone : TRUE
             IN  [kind |-> IF e = entry THEN "rejected" ELSE "evicted",
                  platform |-> e[3].platform, score |-> e[1], counter |-> e[2]]

(***************************************************************************)
(* One iteration of `for r in raw_query` in analyze_task.                  *)
(***************************************************************************)
ProcessRaw(r) ==
    /\ pc = "stream"
    /\ total' = total + 1
    /\ platform_counts' = [platform_counts EXCEPT ![r.platform] = @ + 1]
    /\ engagements' = Append(engagements, WeightedEngagementFromMetrics(r.metrics))
    /\ total_engagement' = total_engagement + WeightedEngagementFromMetrics(r.metrics)
    /\ LET item == ItemOfRow(r)
           heap == HeapOf(candidate_heaps, r.platform)
           limit == settings.semantic_sampling_max_items
       IN  IF ~IsValid(item)
           THEN /\ UNCHANGED <<pc, candidate_heaps, heap_counter, seen, maxDropped, arrived,
                              run>>
                /\ lastDrop' = NoDrop
           ELSE IF HeadOfEmpty(heap, limit)
           THEN /\ heap_counter' = heap_counter + 1
                /\ run' = [run EXCEPT !.platform_order =
                              IF r.platform \in Range(@) THEN @ ELSE Append(@, r.platform),
                                      !.exc = "IndexError"]
                /\ pc' = "exception"
                /\ lastDrop' = NoDrop
                /\ arrived' = [arrived EXCEPT ![r.platform] = Append(@, item)]
                /\ UNCHANGED <<candidate_heaps, seen, maxDropped>>
           ELSE /\ heap_counter' = heap_counter + 1
                /\ pc' = pc
                /\ run' = [run EXCEPT !.platform_order =
                              IF r.platform \in Range(@) THEN @ ELSE Append(@, r.platform)]
                /\ candidate_heaps' =
                      [candidate_heaps EXCEPT ![r.platform] =
                          OfferToHeap(heap, limit, GetEngagementScore(item),
                                      heap_counter + 1, item)]
                /\ seen' = [seen EXCEPT ![r.platform] = @ + 1]
                /\ arrived' = [arrived EXCEPT ![r.platform] = Append(@, item)]
                /\ lastDrop' = DropOf(heap, candidate_heaps'[r.platform],
                                      <<GetEngagementScore(item), heap_counter + 1, item>>)
                /\ maxDropped' =
                      IF lastDrop'.kind = "none" THEN maxDropped
                      ELSE [maxDropped EXCEPT ![r.platform] = Max2(@, lastDrop'.score)]
    /\ UNCHANGED <<settings, sampleVars, ex, mm, oracle_calls, db>>

(***************************************************************************)
(* The selector on its own: any stream of rows, any capacity.              *)
(***************************************************************************)
StreamRows(n) ==
    [sid : {n}, platform : StreamPlatforms, valid : BOOLEAN,
     metrics : [upvotes : UpvoteValues, num_comments : {0}, views : {0}, likes : {0}]]

\* A part of the comma-separated opinion_count_thresholds string that is not
\* blank: int(part) gives a value or raises ValueError
IntPart(v) == [is_int |-> TRUE, value |-> v]

JunkPart == [is_int |-> FALSE, value |-> 0]

DefaultSettings ==
    [semantic_sampling_max_items |-> 200,
     semantic_sampling_target_count |-> 50,
     semantic_sampling_k_min |-> 3,
     semantic_sampling_k_max |-> 10,
     semantic_sampling_outlier_percent |-> 10,
     opinion_count_min |-> 2,
     opinion_count_max |-> 6,
     opinion_count_thresholds |-> <<IntPart(12), IntPart(24), IntPart(36), IntPart(48)>>]

InitSelector ==
    /\ pc = "stream"
    /\ settings \in {[DefaultSettings EXCEPT !.semantic_sampling_max_items = c] :
                        c \in CapacityValues}
    /\ total = 0
    /\ platform_counts = [p \in Platforms |-> 0]
    /\ candidate_heaps = [p \in Platforms |-> <<>>]
    /\ heap_counter = 0
    /\ engagements = <<>>
    /\ total_engagement = 0
    /\ seen = [p \in Platforms |-> 0]
    /\ lastDrop = NoDrop
    /\ maxDropped = [p \in Platforms |-> -1]
    /\ arrived = [p \in Platforms |-> <<>>]
    /\ candidate_items = <<>>
    /\ top_items = <<>>
    /\ sample_ret = NoSample
    /\ quota = NoQuota
    /\ embed_calls = 0
    /\ run = IdleRun
    /\ db = NewDb(NoRecord)
    /\ ex = IdleEx
    /\ mm = IdleMm
    /\ oracle_calls = 0

StreamAny == \E r \in StreamRows(total + 1) : total < MaxStream /\ ProcessRaw(r)

NextSelector == StreamAny

SpecSelector == InitSelector /\ [][NextSelector]_vars

(***************************************************************************)
(* Selector claims.                                                        *)
(***************************************************************************)
HeapScores(h) == {h[i][1] : i \in 1..Len(h)}

HeapMin(h) == CHOOSE s \in HeapScores(h) : \A t \in HeapScores(h) : s <= t

Capacity == settings.semantic_sampling_max_items

\* C3: for every platform group the heap holds exactly min(C, n) entries, n
\* being the validated items seen for the group, and while n <= C nothing of
\* the group has been dropped (every counter handed to the group is retained).
C3_HeapSize ==
    \A p \in Platforms :
        /\ Len(candidate_heaps[p]) = Min2(Capacity, seen[p])
        /\ seen[p] <= Capacity => maxDropped[p] = -1
        /\ (lastDrop.kind # "none" /\ lastDrop.platform = p) => seen[p] > Capacity

C3_Witness ==
    \E p \in Platforms :
        /\ seen[p] = Capacity + 1
        /\ Len(candidate_heaps[p]) = Capacity
        /\ \E q \in Platforms : q # p /\ seen[q] = 1 /\ Len(candidate_heaps[q]) = 1

\* C4: an item dropped by an iteration (rejected on arrival or evicted) has a
\* score <= the minimum score its group's heap retains right after that
\* iteration; and once more than C items of a group were seen, the group
\* holds exactly C items whose minimum is >= every score dropped so far.
C4_DropBelowMin ==
    /\ lastDrop.kind # "none" =>
          lastDrop.score <= HeapMin(candidate_heaps[lastDrop.platform])
    /\ \A p \in Platforms :
          seen[p] > Capacity =>
              /\ Len(candidate_heaps[p]) = Capacity
              /\ maxDropped[p] <= HeapMin(candidate_heaps[p])

C4_Witness ==
    /\ lastDrop.kind = "evicted"
    /\ Capacity = 2
    /\ seen[lastDrop.platform] = Capacity + 2
    /\ lastDrop.score < HeapMin(candidate_heaps[lastDrop.platform])
    /\ maxDropped[lastDrop.platform] = lastDrop.score

(***************************************************************************)
(* JSON values the LLM can reply with, and the validators of               *)
(* llm_validators.py.  A reply is an exception of the chat call, a text    *)
(* that json.loads rejects, or a text that parses to a value.              *)
(***************************************************************************)
MaxExpected == 3

RaiseReply == [tag |-> "raise"]

GarbageReply == [tag |-> "text", json |-> FALSE]

JsonReply(d) == [tag |-> "text", json |-> TRUE, data |-> d]

\* str.strip() on the strings of the model: " " stands for a blank string.
Strip(s) == IF s = " " THEN "" ELSE s

SentEntry(i, s, k) ==
    [is_dict |-> TRUE, index |-> i, index_is_int |-> TRUE,
     score |-> s, score_is_int |-> TRUE,
     key_phrases |-> [j \in 1..k |-> "kp"], kp_is_list |-> TRUE, kp_all_str |-> TRUE]

SentPayload(entries) == [root |-> "object", scores_is_list |-> TRUE, scores |-> entries]

ReplyScores == {30, 70}

\* Replies to a sentiment prompt of n texts: well-formed ones and one reply
\* for each rule of the schema that a reply can break.
SentimentPayloads(n) ==
    {SentPayload([i \in 1..n |-> SentEntry(i, s, 1)]) : s \in ReplyScores}
    \cup {SentPayload([i \in 1..n |-> SentEntry(i, IF i = 1 THEN 0 ELSE 100, 3)])}
    \cup {SentPayload([i \in 1..(n - 1) |-> SentEntry(i, 70, 1)]),
          SentPayload([i \in 1..(n + 1) |-> SentEntry(i, 70, 1)]),
          SentPayload([i \in 1..n |-> SentEntry(i - 1, 70, 1)]),
          SentPayload([i \in 1..n |-> SentEntry(i, IF i = n THEN 101 ELSE 70, 1)]),
          SentPayload([i \in 1..n |-> SentEntry(i, IF i = n THEN -1 ELSE 70, 1)]),
          SentPayload([i \in 1..n |-> SentEntry(i, 70, IF i = n THEN 4 ELSE 0)]),
          SentPayload([i \in 1..n |-> [SentEntry(i, 70, 1) EXCEPT !.score_is_int = (i # n)]]),
          SentPayload([i \in 1..n |-> [SentEntry(i, 70, 1) EXCEPT !.index_is_int = (i # 1)]]),
          SentPayload([i \in 1..n |-> [SentEntry(i, 70, 1) EXCEPT !.kp_is_list = (i # 1)]]),
          SentPayload([i \in 1..n |-> [SentEntry(i, 70, 1) EXCEPT !.kp_all_str = (i # 1)]]),
          SentPayload([i \in 1..n |-> [SentEntry(i, 70, 1) EXCEPT !.is_dict = (i # n)]]),
          [SentPayload(<<>>) EXCEPT !.scores_is_list = FALSE],
          [SentPayload(<<>>) EXCEPT !.root = "array"],
          [SentPayload(<<>>) EXCEPT !.root = "null"]}

FirstOf(S) == CHOOSE i \in S : \A j \in S : i <= j

SentEntryError(item, i) ==
    IF ~item.is_dict THEN "Item must be an object."
    ELSE IF ~item.index_is_int \/ item.index # i THEN "Item must have index == i."
    ELSE IF ~item.score_is_int \/ ~(0 <= item.score /\ item.score <= 100)
         THEN "Item must have integer score in [0,100]."
    ELSE IF ~item.kp_is_list THEN "Item must have key_phrases list."
    ELSE IF Len(item.key_phrases) > 3 THEN "Item has too many key phrases."
    ELSE IF ~item.kp_all_str THEN "Item has a non-string key phrase."
    ELSE ""

Verdict(err) == [valid |-> err = "", error |-> err]

ValidateSentimentResponse(data, expected_count) ==
    IF data.root # "object" THEN Verdict("Root must be an object.")
    ELSE IF ~data.scores_is_list THEN Verdict("scores must be a list.")
    ELSE IF Len(data.scores) # expected_count
         THEN Verdict("scores must contain exactly expected_count items.")
    ELSE LET bad == {i \in 1..Len(data.scores) : SentEntryError(data.scores[i], i) # ""}
         IN  IF bad = {} THEN Verdict("")
             ELSE Verdict(SentEntryError(data.scores[FirstOf(bad)], FirstOf(bad)))

Opinion(title, description) ==
    [is_dict |-> TRUE, title |-> title, title_is_str |-> TRUE,
     description |-> description, description_is_str |-> TRUE,
     points |-> [kind |-> "list", items |-> <<"p1", "p2">>, all_str |-> TRUE]]

GoodSummary == [is_str |-> TRUE, blank |-> FALSE, markers |-> 4, length |-> 120]

ClusterPayload(ops, summary) ==
    [root |-> "object", opinions_is_list |-> TRUE, key_opinions |-> ops, summary |-> summary]

OpinionTitles == <<"T1", "T2", "T3", "T4", "T5", "T6", "T7">>

GoodOpinions(n) == [i \in 1..n |-> Opinion(OpinionTitles[i], "D")]

ClusteringPayloads(n) ==
    {ClusterPayload(GoodOpinions(n), GoodSummary),
     ClusterPayload(GoodOpinions(n), [GoodSummary EXCEPT !.markers = 0, !.length = 180]),
     ClusterPayload([i \in 1..n |-> [Opinion(OpinionTitles[i], "D") EXCEPT
                                       !.points = [kind |-> IF i = 1 THEN "absent" ELSE "null",
                                                   items |-> <<>>, all_str |-> TRUE]]],
                    GoodSummary),
     ClusterPayload(GoodOpinions(n - 1), GoodSummary),
     ClusterPayload(GoodOpinions(n + 1), GoodSummary),
     ClusterPayload([i \in 1..n |-> Opinion(IF i = n THEN " " ELSE OpinionTitles[i], "D")],
                    GoodSummary),
     ClusterPayload([i \in 1..n |-> Opinion(OpinionTitles[i], IF i = 1 THEN "" ELSE "D")],
                    GoodSummary),
     ClusterPayload([i \in 1..n |-> [Opinion(OpinionTitles[i], "D") EXCEPT !.title_is_str = (i # 1)]],
                    GoodSummary),
     ClusterPayload([i \in 1..n |-> [Opinion(OpinionTitles[i], "D") EXCEPT !.is_dict = (i # 1)]],
                    GoodSummary),
     ClusterPayload([i \in 1..n |-> [Opinion(OpinionTitles[i], "D") EXCEPT !.points.kind = "other"]],
                    GoodSummary),
     ClusterPayload([i \in 1..n |-> [Opinion(OpinionTitles[i], "D") EXCEPT !.points.all_str = FALSE]],
                    GoodSummary),
     ClusterPayload(GoodOpinions(n), [GoodSummary EXCEPT !.markers = 2, !.length = 179]),
     ClusterPayload(GoodOpinions(n), [GoodSummary EXCEPT !.blank = TRUE, !.markers = 0, !.length = 0]),
     ClusterPayload(GoodOpinions(n), [GoodSummary EXCEPT !.is_str = FALSE]),
     [ClusterPayload(<<>>, GoodSummary) EXCEPT !.opinions_is_list = FALSE],
     [ClusterPayload(<<>>, GoodSummary) EXCEPT !.root = "array"]}

\* validate_clustering_response's defaults for min_count and max_count
ValidatorMinCount == 2

ValidatorMaxCount == 6

\* expected_count=None
NoExpectedCount == -1

OpinionError(item) ==
    IF ~item.is_dict THEN "Opinion must be an object."
    ELSE IF ~item.title_is_str \/ Strip(item.title) = ""
         THEN "Opinion must have non-empty title."
    ELSE IF ~item.description_is_str \/ Strip(item.description) = ""
         THEN "Opinion must have non-empty description."
    ELSE IF item.points.kind = "other" THEN "Opinion points must be a list."
    ELSE IF item.points.kind = "list" /\ ~item.points.all_str
         THEN "Opinion has a non-string point."
    ELSE ""

CountErrorLoose(n, expected_count) ==
    IF expected_count # NoExpectedCount
    THEN IF n > expected_count THEN "key_opinions must contain exactly expected_count items."
         ELSE ""
    ELSE IF ~(ValidatorMinCount <= n /\ n <= ValidatorMaxCount)
         THEN "key_opinions must contain between min_count and max_count items."
         ELSE ""

CountError(n, expected_count) ==
    IF expected_count # NoExpectedCount
    THEN IF n # expected_count THEN "key_opinions must contain exactly expected_count items."
         ELSE ""
    ELSE IF ~(ValidatorMinCount <= n /\ n <= ValidatorMaxCount)
         THEN "key_opinions must contain between min_count and max_count items."
         ELSE ""

SummaryMinMarkers == 3

SummaryMinLength == 180

ValidateClusteringResponse(data, expected_count) ==
    IF data.root # "object" THEN Verdict("Root must be an object.")
    ELSE IF ~data.opinions_is_list THEN Verdict("key_opinions must be a list.")
    ELSE IF CountError(Len(data.key_opinions), expected_count) # ""
         THEN Verdict(CountError(Len(data.key_opinions), expected_count))
    ELSE LET bad == {i \in 1..Len(data.key_opinions) : OpinionError(data.key_opinions[i]) # ""}
         IN  IF bad # {} THEN Verdict(OpinionError(data.key_opinions[FirstOf(bad)]))
             ELSE IF ~data.summary.is_str \/ data.summary.blank
                  THEN Verdict("summary must be a non-empty string.")
             ELSE IF data.summary.markers < SummaryMinMarkers
                     /\ data.summary.length < SummaryMinLength
                  THEN Verdict("summary is too short; expected 4-6 sentences.")
             ELSE Verdict("")

(***************************************************************************)
(* LLMClient.analyze_json_with_repair.  The coroutine is cut at its two    *)
(* awaits of self.chat: Draft issues the first call, OnDraft runs from the *)
(* first reply to the second call or to the end, OnRepair from the second  *)
(* reply to the end.                                                       *)
(***************************************************************************)
\* LLMClient._safe_json_loads: json.loads of "null" gives None as well.
SafeJsonLoads(reply) ==
    IF reply.json /\ reply.data.root # "null"
    THEN [is_none |-> FALSE, data |-> reply.data, error |-> ""]
    ELSE [is_none |-> TRUE, data |-> NoValue,
          error |-> IF reply.json THEN "" ELSE "JSON parse error"]

\* The validator lambda each caller passes in.
Validate(kind, expected, data) ==
    IF kind = "sentiment" THEN ValidateSentimentResponse(data, expected)
    ELSE ValidateClusteringResponse(data, expected)

ReplyValid(kind, expected, reply) ==
    /\ reply.tag = "text"
    /\ ~SafeJsonLoads(reply).is_none
    /\ Validate(kind, expected, SafeJsonLoads(reply).data).valid

\* Inside a whole run the oracle answers in one of the four ways that
\* matter to the caller: it raises, it sends no JSON, it sends a valid
\* document, it sends a document that breaks the schema.
RunPayloads(kind, expected) ==
    IF kind = "sentiment"
    THEN {SentPayload([i \in 1..expected |-> SentEntry(i, 30, 1)]),
          SentPayload([i \in 1..(expected - 1) |-> SentEntry(i, 30, 1)])}
    ELSE {ClusterPayload(GoodOpinions(expected), GoodSummary),
          ClusterPayload(GoodOpinions(expected - 1), GoodSummary)}

Replies(kind, expected) ==
    {RaiseReply, GarbageReply}
    \cup {JsonReply(d) : d \in IF pc # "extract" THEN RunPayloads(kind, expected)
                               ELSE IF kind = "sentiment" THEN SentimentPayloads(expected)
                               ELSE ClusteringPayloads(expected)}

AfterDraftUnchecked(e, reply) ==
    IF reply.tag = "raise"
    THEN [e EXCEPT !.st = "raised", !.draft = "raise", !.last = reply, !.error = "provider"]
    ELSE IF ~SafeJsonLoads(reply).is_none
         THEN [e EXCEPT !.st = "returned", !.draft = "valid", !.last = reply,
                        !.result = SafeJsonLoads(reply).data]
         ELSE [e EXCEPT !.st = "await_repair", !.calls = @ + 1, !.draft = "invalid",
                        !.last = reply, !.error = SafeJsonLoads(reply).error]

\* lines 90-107: parse and validate the first reply; send the repair prompt
AfterDraft(e, reply) ==
    IF reply.tag = "raise"
    THEN [e EXCEPT !.st = "raised", !.draft = "raise", !.last = reply, !.error = "provider"]
    ELSE LET parsed == SafeJsonLoads(reply)
             verdict == Validate(e.kind, e.expected, parsed.data)
         IN  IF ~parsed.is_none /\ verdict.valid
             THEN [e EXCEPT !.st = "returned", !.draft = "valid", !.last = reply,
                            !.result = parsed.data]
             ELSE [e EXCEPT !.st = "await_repair", !.calls = @ + 1, !.draft = "invalid",
                            !.last = reply,
                            !.error = IF ~parsed.is_none /\ verdict.error # ""
                                      THEN verdict.error ELSE parsed.error]

AfterRepairRetry(e, reply) ==
    IF reply.tag = "raise"
    THEN [e EXCEPT !.st = "raised", !.last = reply, !.error = "provider"]
    ELSE IF ReplyValid(e.kind, e.expected, reply)
         THEN [e EXCEPT !.st = "returned", !.last = reply, !.result = SafeJsonLoads(reply).data]
         ELSE IF e.calls < 4
              THEN [e EXCEPT !.calls = @ + 1, !.last = reply]
              ELSE [e EXCEPT !.st = "raised", !.last = reply, !.error = "ValueError"]

\* lines 108-114: parse and validate the repair reply
AfterRepair(e, reply) ==
    IF reply.tag = "raise"
    THEN [e EXCEPT !.st = "raised", !.last = reply, !.error = "provider"]
    ELSE LET parsed == SafeJsonLoads(reply)
             verdict == Validate(e.kind, e.expected, parsed.data)
         IN  IF parsed.is_none
             THEN [e EXCEPT !.st = "raised", !.last = reply, !.error = parsed.error]
             ELSE IF ~verdict.valid
                  THEN [e EXCEPT !.st = "raised", !.last = reply, !.error = verdict.error]
                  ELSE [e EXCEPT !.st = "returned", !.last = reply, !.result = parsed.data]

AnalyzeJsonDraft ==
    /\ ex.st = "call"
    /\ ex' = [ex EXCEPT !.st = "await_draft", !.calls = @ + 1]
    /\ oracle_calls' = oracle_calls + 1
    /\ UNCHANGED <<pc, settings, mm, streamVars, sampleVars, taskVars>>

AnalyzeJsonOnDraft ==
    /\ ex.st = "await_draft"
    /\ \E reply \in Replies(ex.kind, ex.expected) :
          /\ ex' = AfterDraft(ex, reply)
          /\ oracle_calls' = oracle_calls + (ex'.calls - ex.calls)
    /\ UNCHANGED <<pc, settings, mm, streamVars, sampleVars, taskVars>>

AnalyzeJsonOnRepair ==
    /\ ex.st = "await_repair"
    /\ \E reply \in Replies(ex.kind, ex.expected) :
          /\ ex' = AfterRepair(ex, reply)
          /\ oracle_calls' = oracle_calls + (ex'.calls - ex.calls)
    /\ UNCHANGED <<pc, settings, mm, streamVars, sampleVars, taskVars>>

(***************************************************************************)
(* Mindmap text.  A line is its indentation and its stripped text; a text  *)
(* is a root declaration "root((...))" or a plain label.                   *)
(***************************************************************************)
Line(indent, text) == [indent |-> indent, text |-> text]

Plain(s) == [kind |-> "plain", s |-> s]

RootDecl(s) == [kind |-> "root", s |-> s]

\* validate_mermaid_output, on the non-blank lines of the code
ValidateMermaidOutput(code) ==
    LET lines == code
        idx == 1..Len(lines)
        roots == {i \in idx : lines[i].indent >= 2 /\ lines[i].text.kind = "root"}
        sentiments == {i \in idx : lines[i].indent >= 4 /\ lines[i].text = Plain("Sentiment")}
        labels == {i \in idx : lines[i].indent >= 6 /\ lines[i].text.kind # "root"}
        opinions == {i \in idx : /\ lines[i].indent >= 4
                                 /\ lines[i].indent < 6
                                 /\ lines[i].text # Plain("Sentiment")}
    IN  IF lines = <<>> THEN Verdict("Mermaid output is empty.")
        ELSE IF lines[1].text # Plain("mindmap") THEN Verdict("First line must be mindmap.")
        ELSE IF Cardinality(roots) # 1 THEN Verdict("Expected exactly one root node.")
        ELSE IF Cardinality(sentiments) # 1 THEN Verdict("Expected a Sentiment branch under root.")
        ELSE IF labels = {} THEN Verdict("Expected a sentiment label under Sentiment.")
        ELSE IF Cardinality(opinions) < 2 THEN Verdict("Expected at least 2 opinion branches under root.")
        ELSE Verdict("")

\* MermaidGenerator._get_sentiment_label
GetSentimentLabel(score) ==
    IF score >= 80 THEN "Very Positive"
    ELSE IF score >= 60 THEN "Positive"
    ELSE IF score >= 40 THEN "Neutral"
    ELSE IF score >= 20 THEN "Negative"
    ELSE "Very Negative"

\* Strings that consist of blanks and of the punctuation _sanitize_label removes.
BlankLabels == {"", " ", "(:)"}

\* MermaidGenerator._sanitize_label (the strings of the model are shorter
\* than every max_len in use)
SanitizeLabel(label) == IF label \in BlankLabels THEN "Point" ELSE label

Take(s, n) == SubSeq(s, 1, Min2(n, Len(s)))

\* MermaidGenerator._extract_points for a text without separators
MermaidExtractPoints(text) ==
    IF Strip(text) = "" THEN <<"Point">> ELSE <<SanitizeLabel(text)>>

\* MermaidGenerator._normalize_points
MermaidNormalizePoints(points, fallback_text) ==
    IF points # <<>>
    THEN Take([i \in 1..Len(points) |-> SanitizeLabel(points[i])], 4)
    ELSE MermaidExtractPoints(fallback_text)

PointsOf(op) == IF "points" \in DOMAIN op THEN op.points ELSE <<>>

RECURSIVE MermaidNormalizeKeyOpinions(_)
MermaidNormalizeKeyOpinions(key_opinions) ==
    IF key_opinions = <<>> THEN <<>>
    ELSE LET item == Head(key_opinions)
             title == Strip(item.title)
             description == Strip(item.description)
             points == MermaidNormalizePoints(PointsOf(item), description)
             rest == MermaidNormalizeKeyOpinions(Tail(key_opinions))
         IN  IF title # "" \/ description # ""
             THEN <<[title |-> IF title # "" THEN title ELSE "opinion",
                     description |-> description, points |-> points]>> \o rest
             ELSE rest

RECURSIVE FallbackBranches(_)
FallbackBranches(ops) ==
    IF ops = <<>> THEN <<>>
    ELSE LET op == Head(ops)
             points == MermaidNormalizePoints(PointsOf(op), op.description)
             shown == Take(points, 3)
         IN  <<Line(4, Plain(SanitizeLabel(op.title)))>>
             \o (IF points # <<>>
                 THEN <<Line(6, Plain("Points"))>>
                      \o [i \in 1..Len(shown) |-> Line(8, Plain(SanitizeLabel(shown[i])))]
                 ELSE <<>>)
             \o FallbackBranches(Tail(ops))

\* MermaidGenerator._generate_fallback
GenerateFallback(keyword, key_opinions, sentiment_label) ==
    <<Line(0, Plain("mindmap")),
      Line(2, RootDecl(SanitizeLabel(keyword))),
      Line(4, Plain("Sentiment")),
      Line(6, Plain(SanitizeLabel(sentiment_label)))>>
    \o FallbackBranches(Take(key_opinions, 6))

\* A chat reply for the diagram: prose may precede the code, the code may
\* be inside a ```mermaid fence.
TextReply(prose, fenced, code) ==
    [tag |-> "text", prose |-> prose, fenced |-> fenced, code |-> code]

ProseLine == Line(0, Plain("Here is the mindmap"))

FirstMindmap(code) ==
    LET hits == {i \in 1..Len(code) : code[i].text = Plain("mindmap")}
    IN  IF hits = {} THEN 0 ELSE FirstOf(hits)

\* str.strip() of a block: the first line loses its indentation
StripBlock(code) == IF code = <<>> THEN code ELSE [code EXCEPT ![1].indent = 0]

\* MermaidGenerator._extract_mermaid_code
ExtractMermaidCode(response) ==
    IF response.fenced /\ response.code # <<>> THEN StripBlock(response.code)
    ELSE IF FirstMindmap(response.code) # 0
         THEN StripBlock(SubSeq(response.code, FirstMindmap(response.code), Len(response.code)))
         ELSE StripBlock((IF response.prose THEN <<ProseLine>> ELSE <<>>) \o response.code)

OracleMindmap(k) ==
    <<Line(0, Plain("mindmap")), Line(2, RootDecl("kw")), Line(4, Plain("Sentiment")),
      Line(6, Plain("Positive"))>>
    \o [i \in 1..k |-> Line(4, Plain(OpinionTitles[i]))]

\* two lines under the Sentiment branch
TwoLabelMindmap ==
    SubSeq(OracleMindmap(2), 1, 4) \o <<Line(6, Plain("Mixed"))>> \o SubSeq(OracleMindmap(2), 5, 6)

\* nothing under the Sentiment branch, a point under the first opinion
BareSentimentMindmap ==
    SubSeq(OracleMindmap(2), 1, 3) \o <<Line(4, Plain(OpinionTitles[1])), Line(6, Plain("p1")),
                                         Line(4, Plain(OpinionTitles[2]))>>

MermaidReplies ==
    {RaiseReply,
     TextReply(FALSE, FALSE, TwoLabelMindmap),
     TextReply(FALSE, FALSE, BareSentimentMindmap),
     TextReply(FALSE, FALSE, OracleMindmap(2)),
     TextReply(TRUE, TRUE, OracleMindmap(3)),
     TextReply(TRUE, FALSE, OracleMindmap(2)),
     TextReply(FALSE, FALSE, OracleMindmap(1)),
     TextReply(FALSE, FALSE, Tail(OracleMindmap(2))),
     TextReply(TRUE, FALSE, SubSeq(OracleMindmap(2), 1, 1) \o SubSeq(OracleMindmap(2), 3, 6)),
     TextReply(FALSE, FALSE, SubSeq(OracleMindmap(2), 1, 3) \o SubSeq(OracleMindmap(2), 5, 6)),
     TextReply(TRUE, FALSE, <<>>),
     TextReply(FALSE, FALSE, <<>>)}

DiagramReplies ==
    IF pc = "extract" THEN MermaidReplies
    ELSE {RaiseReply, TextReply(FALSE, FALSE, OracleMindmap(2)), TextReply(TRUE, FALSE, <<>>)}

(***************************************************************************)
(* MermaidGenerator.generate, cut at its two awaits of self.llm.chat.      *)
(***************************************************************************)
MermaidFallback(m) ==
    GenerateFallback(m.keyword, MermaidNormalizeKeyOpinions(m.key_opinions),
                     GetSentimentLabel(m.sentiment_score))

\* lines 52-65: validate the first reply; send the repair prompt
MermaidAfterDraft(m, reply) ==
    IF reply.tag = "raise"
    THEN [m EXCEPT !.st = "returned", !.last = reply, !.via = "fallback",
                   !.result = MermaidFallback(m)]
    ELSE IF ValidateMermaidOutput(ExtractMermaidCode(reply)).valid
         THEN [m EXCEPT !.st = "returned", !.last = reply, !.via = "draft",
                        !.result = ExtractMermaidCode(reply)]
         ELSE [m EXCEPT !.st = "await_repair", !.calls = @ + 1, !.last = reply]

MermaidAfterRepairRetry(m, reply) ==
    IF reply.tag = "raise" \/ m.calls >= 4
    THEN [m EXCEPT !.st = "returned", !.last = reply, !.via = "fallback",
                   !.result = MermaidFallback(m)]
    ELSE IF ValidateMermaidOutput(ExtractMermaidCode(reply)).valid
         THEN [m EXCEPT !.st = "returned", !.last = reply, !.via = "repair",
                        !.result = ExtractMermaidCode(reply)]
         ELSE [m EXCEPT !.calls = @ + 1, !.last = reply]

\* lines 66-72: validate the repair reply, or fall back
MermaidAfterRepair(m, reply) ==
    IF reply.tag = "raise"
    THEN [m EXCEPT !.st = "returned", !.last = reply, !.via = "fallback",
                   !.result = MermaidFallback(m)]
    ELSE IF ValidateMermaidOutput(ExtractMermaidCode(reply)).valid
         THEN [m EXCEPT !.st = "returned", !.last = reply, !.via = "repair",
                        !.result = ExtractMermaidCode(reply)]
         ELSE [m EXCEPT !.st = "returned", !.last = reply, !.via = "fallback",
                        !.result = MermaidFallback(m)]

MermaidDraft ==
    /\ mm.st = "call"
    /\ mm' = [mm EXCEPT !.st = "await_draft", !.calls = @ + 1]
    /\ oracle_calls' = oracle_calls + 1
    /\ UNCHANGED <<pc, settings, ex, streamVars, sampleVars, taskVars>>

MermaidOnDraft ==
    /\ mm.st = "await_draft"
    /\ \E reply \in DiagramReplies :
          /\ mm' = MermaidAfterDraft(mm, reply)
          /\ oracle_calls' = oracle_calls + (mm'.calls - mm.calls)
    /\ UNCHANGED <<pc, settings, ex, streamVars, sampleVars, taskVars>>

MermaidOnRepair ==
    /\ mm.st = "await_repair"
    /\ \E reply \in DiagramReplies :
          /\ mm' = MermaidAfterRepair(mm, reply)
          /\ oracle_calls' = oracle_calls + (mm'.calls - mm.calls)
    /\ UNCHANGED <<pc, settings, ex, streamVars, sampleVars, taskVars>>

(***************************************************************************)
(* The extraction protocol on its own: one call of                         *)
(* analyze_json_with_repair for every validator and expected count, or one *)
(* call of generate for every clustering result.                           *)
(***************************************************************************)
PlaceholderOpinions == <<[title |-> "Analysis Error", description |-> "Unable to cluster opinions."]>>

NormalOpinions(n) == [i \in 1..n |-> [title |-> OpinionTitles[i], description |-> "D",
                                      points |-> <<"p1", "p2">>]]

DiagramInputs ==
    {NewMermaid(kw, ops, s) :
        kw \in {"kw", " "},
        ops \in {PlaceholderOpinions, <<>>} \cup {NormalOpinions(n) : n \in 1..MaxExpected},
        s \in {10, 50, 90}}

InitExtract ==
    /\ pc = "extract"
    /\ settings = DefaultSettings
    /\ total = 0
    /\ platform_counts = [p \in Platforms |-> 0]
    /\ candidate_heaps = [p \in Platforms |-> <<>>]
    /\ heap_counter = 0
    /\ engagements = <<>>
    /\ total_engagement = 0
    /\ seen = [p \in Platforms |-> 0]
    /\ lastDrop = NoDrop
    /\ maxDropped = [p \in Platforms |-> -1]
    /\ arrived = [p \in Platforms |-> <<>>]
    /\ candidate_items = <<>>
    /\ top_items = <<>>
    /\ sample_ret = NoSample
    /\ quota = NoQuota
    /\ embed_calls = 0
    /\ run = IdleRun
    /\ db = NewDb(NoRecord)
    /\ oracle_calls = 0
    /\ \/ /\ ex \in {NewCall(k, n) : k \in {"sentiment", "clustering"}, n \in 1..MaxExpected}
          /\ mm = IdleMm
       \/ /\ ex = IdleEx
          /\ mm \in DiagramInputs

NextExtract ==
    \/ AnalyzeJsonDraft
    \/ AnalyzeJsonOnDraft
    \/ AnalyzeJsonOnRepair
    \/ MermaidDraft
    \/ MermaidOnDraft
    \/ MermaidOnRepair

SpecExtract == InitExtract /\ [][NextExtract]_vars

(***************************************************************************)
(* Extraction claims.                                                      *)
(***************************************************************************)
\* C1: one extraction (analyze_json_with_repair for a sentiment batch or for
\* the clustering, or generate for the diagram) makes at most two chat calls,
\* whatever the replies are and whether either call raises, and a finished
\* extraction has made one or two.
C1_AtMostTwoCalls ==
    /\ ex.calls <= 2
    /\ mm.calls <= 2
    /\ ex.st \in {"returned", "raised"} => ex.calls \in {1, 2}
    /\ mm.st = "returned" => mm.calls \in {1, 2}
    /\ oracle_calls = ex.calls + mm.calls

C1_Witness ==
    /\ ex.st = "raised"
    /\ ex.calls = 2
    /\ ex.draft = "invalid"
    /\ ex.last.tag = "text"
    /\ ex.last.json
    /\ ex.kind = "clustering"

\* C2: when analyze_json_with_repair has taken the first reply, it has
\* returned that reply's payload after one call if the reply parses and
\* passes the validator, and has otherwise (the call did not raise) issued
\* exactly one repair call; when it ends after a repair call, it has returned
\* the repair reply's payload if that reply parses and passes the same
\* validator, and has raised if not, with two calls made in all.
C2_RepairProtocol ==
    /\ (ex.st \in {"returned", "raised", "await_repair"} /\ ex.calls = 1) =>
          /\ ex.st # "await_repair"
          /\ ex.st = "returned" <=> ReplyValid(ex.kind, ex.expected, ex.last)
          /\ ex.st = "returned" => (ex.draft = "valid" /\ ex.result = ex.last.data)
          /\ ex.st = "raised" => ex.last.tag = "raise"
    /\ ex.st = "await_repair" =>
          /\ ex.calls = 2
          /\ ex.draft = "invalid"
          /\ ex.last.tag = "text"
          /\ ~ReplyValid(ex.kind, ex.expected, ex.last)
    /\ (ex.st \in {"returned", "raised"} /\ ex.calls = 2) =>
          /\ ex.draft = "invalid"
          /\ ex.st = "returned" <=> ReplyValid(ex.kind, ex.expected, ex.last)
          /\ ex.st = "returned" => ex.result = ex.last.data
    /\ ex.draft = "valid" => (ex.st = "returned" /\ ex.calls = 1)

\* the scenario of the spec: target_count = 3, a first reply with 2 opinions,
\* a repair reply with 3 valid opinions
C2_Witness ==
    /\ ex.kind = "clustering"
    /\ ex.expected = 3
    /\ ex.st = "returned"
    /\ ex.calls = 2
    /\ ex.draft = "invalid"
    /\ ex.error = CountError(2, 3)
    /\ ~ReplyValid("clustering", 3, JsonReply(ClusterPayload(GoodOpinions(2), GoodSummary)))
    /\ ex.result = ClusterPayload(GoodOpinions(3), GoodSummary)

(***************************************************************************)
(* EmbeddingSampler.  Indices are 1-based.  The embedding model and KMeans *)
(* are outside the repository: encode either raises, returns None, returns *)
(* an array of another length, or returns one vector per text; KMeans      *)
(* gives any labelling of the n points with labels in 1..k, and the        *)
(* distances to the centroids are any numbers.                             *)
(***************************************************************************)
MaxSample == 6

\* int(math.sqrt(n))
IntSqrt(n) == CHOOSE r \in 0..n : r * r <= n /\ (r + 1) * (r + 1) > n

\* round(a / b) of Python 3 for a >= 0, b > 0: halves go to the even integer
RoundHalfEven(a, b) ==
    LET q == a \div b
        r == a % b
    IN  IF 2 * r < b THEN q
        ELSE IF 2 * r > b THEN q + 1
        ELSE IF q % 2 = 0 THEN q ELSE q + 1

\* EmbeddingSampler.__init__: the clamps of the constructor
Sampler(s) ==
    [max_items |-> Max2(1, s.semantic_sampling_max_items),
     target_count |-> Max2(1, s.semantic_sampling_target_count),
     k_min |-> Max2(1, s.semantic_sampling_k_min),
     k_max |-> Max2(Max2(1, s.semantic_sampling_k_min), s.semantic_sampling_k_max),
     outlier_percent |-> Max2(0, Min2(s.semantic_sampling_outlier_percent, 50))]

\* sorted(..., key=...) on a list of <<key, value>> pairs: stable, ascending.
\* Element j goes to the place that counts the elements that sort before it.
SortPairs(s) ==
    LET place == [j \in 1..Len(s) |->
                     Cardinality({k \in 1..Len(s) :
                                     s[k][1] < s[j][1] \/ (s[k][1] = s[j][1] /\ k <= j)})]
    IN  [r \in 1..Len(s) |-> s[CHOOSE j \in 1..Len(s) : place[j] = r]]

Values(pairs) == [i \in 1..Len(pairs) |-> pairs[i][2]]

Reverse(s) == [i \in 1..Len(s) |-> s[Len(s) + 1 - i]]

\* [x for x in s if x in keep]
SelectSeq2(s, keep) == SelectSeq(s, LAMBDA x : x \in keep)

\* the elements of s at the positions in S, in the order of s
AtPositions(s, S) ==
    LET flags == [j \in 1..Len(s) |-> <<j \in S, s[j]>>]
    IN  Values(SelectSeq(flags, LAMBDA x : x[1]))

\* the indices of a set in ascending order (iteration order of a set of small ints)
Ascending(S, n) == SelectSeq2([i \in 1..n |-> i], S)

\* sorted(idxs, key=lambda i: distances[i])
ByDistance(idxs, dist) == Values(SortPairs([j \in 1..Len(idxs) |-> <<dist[idxs[j]], idxs[j]>>]))

\* np.argsort(distances)
Argsort(dist, n) == ByDistance([i \in 1..n |-> i], dist)

\* cluster_indices: the labels in the order of their first member
ClusterOrder(labels, n) ==
    AtPositions([j \in 1..n |-> labels[j]],
                {j \in 1..n : \A k \in 1..(j - 1) : labels[k] # labels[j]})

ClusterMembers(labels, c, n) == Ascending({i \in 1..n : labels[i] = c}, n)

RECURSIVE SumOver(_, _)
SumOver(f, S) ==
    IF S = {} THEN 0
    ELSE LET x == CHOOSE y \in S : TRUE IN f[x] + SumOver(f, S \ {x})

\* lines 107-112: one pass over the clusters, largest first
RECURSIVE DecrementPass(_, _, _, _)
DecrementPass(order, desired, total_desired, target_count) ==
    IF order = <<>> \/ total_desired <= target_count THEN desired
    ELSE IF desired[Head(order)] > 1
         THEN DecrementPass(Tail(order), [desired EXCEPT ![Head(order)] = @ - 1],
                            total_desired - 1, target_count)
         ELSE DecrementPass(Tail(order), desired, total_desired, target_count)

\* lines 99-112: desired[c] for every cluster that has members
Quotas(labels, n, target_count) ==
    LET order == ClusterOrder(labels, n)
        clusters == Range(order)
        size == [c \in clusters |-> Len(ClusterMembers(labels, c, n))]
        desired == [c \in clusters |-> Max2(1, RoundHalfEven(target_count * size[c], n))]
        bySize == Values(SortPairs([j \in 1..Len(order) |-> <<0 - size[order[j]], order[j]>>]))
    IN  IF SumOver(desired, clusters) > target_count
        THEN DecrementPass(bySize, desired, SumOver(desired, clusters), target_count)
        ELSE desired

\* line 99: cluster_sizes
ClusterSizes(labels, n) ==
    [c \in Range(ClusterOrder(labels, n)) |-> Len(ClusterMembers(labels, c, n))]

\* lines 95-112: the locals of the quota step
QuotaStep(labels, n, target_count) ==
    [n |-> n, target_count |-> target_count, cluster_sizes |-> ClusterSizes(labels, n),
     desired |-> Quotas(labels, n, target_count)]

\* lines 114-118: the members closest to their centroid, per cluster
CoreSelection(labels, dist, n, target_count) ==
    LET desired == Quotas(labels, n, target_count)
    IN  UNION {Range(Take(ByDistance(ClusterMembers(labels, c, n), dist), desired[c])) :
                  c \in DOMAIN desired}

\* lines 120-129
OutlierCount(s, target_count) == Min2((target_count * s.outlier_percent) \div 100, target_count)

Outliers(s, selected, dist, n, target_count) ==
    Take(SelectSeq2(Reverse(Argsort(dist, n)), (1..n) \ selected), OutlierCount(s, target_count))

\* lines 131-136: drop the closest non-outliers while there are too many
Trim(selected, outliers, dist, n, target_count) ==
    IF Cardinality(selected) > target_count
    THEN LET candidates_sorted == ByDistance(Ascending(selected \ Range(outliers), n), dist)
         IN  selected \ Range(Take(candidates_sorted, Cardinality(selected) - target_count))
    ELSE selected

\* lines 138-143: add the closest unselected while there are too few
FillNoOp(selected, dist, n, target_count) == selected

Fill(selected, dist, n, target_count) ==
    IF Cardinality(selected) < target_count
    THEN selected \cup Range(Take(SelectSeq2(Argsort(dist, n), (1..n) \ selected),
                                  target_count - Cardinality(selected)))
    ELSE selected

\* EmbeddingSampler._cluster_and_select, as the sorted list of indices
ClusterAndSelect(s, n, target_count, labels, dist) ==
    LET k == Min2(s.k_max, Max2(s.k_min, IntSqrt(n)))
    IN  IF n <= target_count THEN [i \in 1..n |-> i]
        ELSE IF k >= n THEN [i \in 1..target_count |-> i]
        ELSE LET core == CoreSelection(labels, dist, n, target_count)
                 outliers == Outliers(s, core, dist, n, target_count)
                 withOutliers == core \cup Range(outliers)
                 trimmed == Trim(withOutliers, outliers, dist, n, target_count)
                 filled == Fill(trimmed, dist, n, target_count)
             IN  Take(Ascending(filled, n), target_count)

SamplePath(s, n, target_count, provider) ==
    IF n = 0 THEN "empty"
    ELSE IF n <= target_count THEN "all"
    ELSE IF provider = "raise" THEN "raise"
    ELSE IF provider # "ok" THEN "fallback"
    ELSE IF Min2(s.k_max, Max2(s.k_min, IntSqrt(n))) >= n THEN "degenerate"
    ELSE "clustered"

\* EmbeddingSampler.sample; <<>> stands for no return when encode raises
Sample(s, items, provider, labels, dist) ==
    LET candidates == Take(items, s.max_items)
        target_count == Min2(s.target_count, Len(candidates))
        path == SamplePath(s, Len(candidates), target_count, provider)
    IN  IF path \in {"empty", "all"} THEN candidates
        ELSE IF path = "raise" THEN <<>>
        ELSE IF path = "fallback" THEN Take(candidates, target_count)
        ELSE LET selected_indices ==
                     ClusterAndSelect(s, Len(candidates), target_count, labels, dist)
             IN  IF selected_indices = <<>> THEN Take(candidates, target_count)
                 ELSE [j \in 1..Len(selected_indices) |-> candidates[selected_indices[j]]]

EncodeOutcomes == {"ok", "raise", "returns_none", "mismatch"}

\* What KMeans and the distance computation can give for n points, k clusters
LabelPatterns(n, k) == {[i \in 1..n |-> (i % k) + 1]}

Labelings(n, k) == IF n <= MaxSample THEN [1..n -> 1..k] ELSE LabelPatterns(n, k)

DistancePatterns(n) ==
    IF n <= MaxSample
    THEN {[i \in 1..n |-> i], [i \in 1..n |-> n - i], [i \in 1..n |-> i % 2]}
    ELSE {[i \in 1..n |-> (i * 7) % 5]}

\* top_items = sampler.sample(candidate_items), lines 197-207 of _run_analysis
SampleStep(provider, labels, dist) ==
    LET s == Sampler(settings)
        n == Min2(Len(candidate_items), s.max_items)
        target_count == Min2(s.target_count, n)
        path == SamplePath(s, n, target_count, provider)
    IN  /\ top_items' = Sample(s, candidate_items, provider, labels, dist)
        /\ sample_ret' = [path |-> path, raised |-> path = "raise", n |-> n,
                          target |-> target_count, provider |-> provider]
        /\ quota' = quota
        /\ embed_calls' = IF provider = "unused" THEN embed_calls ELSE embed_calls + 1
        /\ pc' = IF path = "raise" THEN "exception" ELSE "sentiment"
        /\ run' = [run EXCEPT !.exc = IF path = "raise" THEN "embedding" ELSE @]

SamplerSample ==
    /\ pc = "sample"
    /\ LET s == Sampler(settings)
           n == Min2(Len(candidate_items), s.max_items)
           k == Min2(s.k_max, Max2(s.k_min, IntSqrt(n)))
       IN  IF n <= s.target_count
           THEN SampleStep("unused", <<>>, <<>>)
           ELSE \/ \E provider \in EncodeOutcomes \ {"ok"} : SampleStep(provider, <<>>, <<>>)
                \/ IF k >= n
                   THEN SampleStep("ok", <<>>, <<>>)
                   ELSE \E labels \in Labelings(n, k), dist \in DistancePatterns(n) :
                           SampleStep("ok", labels, dist)
    /\ UNCHANGED <<settings, candidate_items, streamVars, ex, mm, oracle_calls, db>>

(***************************************************************************)
(* The sampler on its own: any number of candidates, any settings.         *)
(***************************************************************************)
SampleItem(i) ==
    [sid |-> i, platform |-> IF i % 2 = 0 THEN "reddit" ELSE "youtube", valid |-> TRUE,
     metrics |-> [upvotes |-> i, num_comments |-> 0, views |-> 0, likes |-> 0]]

SamplerSettings ==
    {[semantic_sampling_max_items |-> m,
      semantic_sampling_target_count |-> t,
      semantic_sampling_k_min |-> kk[1],
      semantic_sampling_k_max |-> kk[2],
      semantic_sampling_outlier_percent |-> o] :
        m \in {0, 3, 200}, t \in 0..MaxSample,
        kk \in {<<0, 0>>, <<2, 2>>, <<3, 10>>, <<9, 10>>},
        o \in {0, 30, 80}}

InitSampler ==
    /\ pc = "sample"
    /\ settings \in SamplerSettings
    /\ total = 0
    /\ platform_counts = [p \in Platforms |-> 0]
    /\ candidate_heaps = [p \in Platforms |-> <<>>]
    /\ heap_counter = 0
    /\ engagements = <<>>
    /\ total_engagement = 0
    /\ seen = [p \in Platforms |-> 0]
    /\ lastDrop = NoDrop
    /\ maxDropped = [p \in Platforms |-> -1]
    /\ arrived = [p \in Platforms |-> <<>>]
    /\ candidate_items \in {[i \in 1..n |-> SampleItem(i)] : n \in 0..MaxSample}
    /\ top_items = <<>>
    /\ sample_ret = NoSample
    /\ quota = NoQuota
    /\ embed_calls = 0
    /\ run = IdleRun
    /\ db = NewDb(NoRecord)
    /\ ex = IdleEx
    /\ mm = IdleMm
    /\ oracle_calls = 0

NextSampler == SamplerSample

SpecSampler == InitSampler /\ [][NextSampler]_vars

(***************************************************************************)
(* Sampler claims.                                                         *)
(***************************************************************************)
Keys(items) == {<<items[i].platform, items[i].sid>> : i \in 1..Len(items)}

SubsetNoDuplicates(out, in) ==
    /\ Range(out) \subseteq Range(in)
    /\ Cardinality(Keys(out)) = Len(out)

SampleReturned == sample_ret.path \notin {"none", "raise"}

C6_FallbackOnProviderFailure ==
    sample_ret.provider \in {"raise", "returns_none", "mismatch"} =>
        /\ ~sample_ret.raised
        /\ run.exc # "embedding"
        /\ db.error_message # "embedding"
        /\ (pc = "sentiment" /\ run.i = 0 /\ ex.st = "idle") =>
              top_items = Take(Take(candidate_items, Sampler(settings).max_items),
                               sample_ret.target)

(***************************************************************************)
(* DataPreprocessor.preprocess and extract_top_items                       *)
(***************************************************************************)
MinEngagement == 5

\* sorted(..., key=_get_engagement_score, reverse=True): stable
ByEngagement(items) ==
    Values(SortPairs([j \in 1..Len(items) |-> <<0 - GetEngagementScore(items[j]), items[j]>>]))

\* lines 42-49: the first valid item of every source_id
Deduplicate(items) ==
    AtPositions(items,
                {j \in 1..Len(items) :
                    /\ IsValid(items[j])
                    /\ \A k \in 1..(j - 1) :
                          ~(IsValid(items[k]) /\ items[k].sid = items[j].sid)})

Preprocess(items) == ByEngagement(Deduplicate(items))

\* the keys of by_platform in insertion order
PlatformsInOrder(items) ==
    AtPositions([j \in 1..Len(items) |-> items[j].platform],
                {j \in 1..Len(items) :
                    \A k \in 1..(j - 1) : items[k].platform # items[j].platform})

OfPlatform(items, p) == SelectSeq(items, LAMBDA x : x.platform = p)

Engaging(items) == SelectSeq(items, LAMBDA x : GetEngagementScore(x) >= MinEngagement)

Drop(s, n) == SubSeq(s, Min2(n, Len(s)) + 1, Len(s))

\* s[:n] of Python, n of either sign
SliceTo(s, n) == IF n >= 0 THEN Take(s, n) ELSE Take(s, Max2(0, Len(s) + n))

RECURSIVE Concat(_)
Concat(ss) == IF ss = <<>> THEN <<>> ELSE Head(ss) \o Concat(Tail(ss))

ExtractTopItems(items, limit) ==
    IF items = <<>> THEN <<>>
    ELSE LET order == PlatformsInOrder(items)
             by_platform == [j \in 1..Len(order) |-> ByEngagement(OfPlatform(items, order[j]))]
             per_platform == Max2(1, limit \div Max2(Len(order), 1))
             head(platform_items) ==
                 Take(IF Engaging(platform_items) = <<>> THEN platform_items
                      ELSE Engaging(platform_items), per_platform)
             selected == Concat([j \in 1..Len(order) |-> head(by_platform[j])])
             remaining ==
                 ByEngagement(Concat([j \in 1..Len(order) |-> Drop(by_platform[j], per_platform)]))
         IN  SliceTo(IF Len(selected) < limit
                     THEN selected \o Take(remaining, Max2(0, limit - Len(selected)))
                     ELSE selected,
                     limit)

(***************************************************************************)
(* SentimentAnalyzer and ClusteringAnalyzer around analyze_json_with_repair *)
(***************************************************************************)
SentimentBatchSize == 10

TopLimit == 50

BatchEndHalf(i, n) == Min2(i + 5, n)

\* items[i:i + batch_size], as the index after its last item
BatchEnd(i, n) == Min2(i + SentimentBatchSize, n)

\* lines 58-73: the entry for position idx, by its index field, else by position
ScoreInfo(scores, idx) ==
    LET hits == {j \in 1..Len(scores) :
                    scores[j].is_dict /\ scores[j].index_is_int /\ scores[j].index = idx}
    IN  IF hits # {} THEN scores[CHOOSE j \in hits : \A h \in hits : h <= j].score
        ELSE IF idx <= Len(scores) /\ scores[idx].is_dict THEN scores[idx].score
        ELSE 50

\* score_info.get("key_phrases", []) of the same entry
KeyPhrases(scores, idx) ==
    LET hits == {j \in 1..Len(scores) :
                    scores[j].is_dict /\ scores[j].index_is_int /\ scores[j].index = idx}
    IN  IF hits # {} THEN scores[CHOOSE j \in hits : \A h \in hits : h <= j].key_phrases
        ELSE IF idx <= Len(scores) /\ scores[idx].is_dict THEN scores[idx].key_phrases
        ELSE <<>>

FallbackResult(item) ==
    [source_id |-> item.sid, score |-> 50, key_phrases |-> <<>>,
     platform |-> item.platform, engagement |-> 0]

SentimentFallbackDropLast(batch) == [j \in 1..(Len(batch) - 1) |-> FallbackResult(batch[j])]

SentimentFallbackKeepScore(batch) ==
    [j \in 1..Len(batch) |-> [FallbackResult(batch[j]) EXCEPT !.score = 30]]

\* line 84: the list built by `except Exception`
SentimentFallback(batch) == [j \in 1..Len(batch) |-> FallbackResult(batch[j])]

\* SentimentAnalyzer._analyze_single_batch from the end of its await on
SentimentBatch(batch, e) ==
    IF e.st = "returned"
    THEN [raised |-> FALSE,
          results |-> [j \in 1..Len(batch) |->
                          [source_id |-> batch[j].sid,
                           score |-> ScoreInfo(e.result.scores, j),
                           key_phrases |-> KeyPhrases(e.result.scores, j),
                           platform |-> batch[j].platform,
                           engagement |-> batch[j].metrics.upvotes + batch[j].metrics.likes]]]
    ELSE [raised |-> FALSE, results |-> SentimentFallback(batch)]

WeightFlat(engagement) == 1

\* line 94
Weight(engagement) == Max2(1, engagement \div 10 + 1)

RECURSIVE WeightedSums(_)
WeightedSums(results) ==
    IF results = <<>> THEN <<0, 0>>
    ELSE LET r == Head(results)
             weight == Weight(r.engagement)
             rest == WeightedSums(Tail(results))
         IN  <<r.score * weight + rest[1], weight + rest[2]>>

\* SentimentAnalyzer.calculate_weighted_score
CalculateWeightedScore(results) ==
    IF results = <<>> THEN 50
    ELSE IF WeightedSums(results)[2] > 0
         THEN RoundHalfEven(WeightedSums(results)[1], WeightedSums(results)[2])
         ELSE 50

\* sorted(S) of a set of integers
SortedSet(S) ==
    [i \in 1..Cardinality(S) |-> CHOOSE v \in S : Cardinality({w \in S : w < v}) = i - 1]

\* ClusteringAnalyzer._parse_thresholds on the parts of the string
ParseThresholds(raw) ==
    SortedSet({raw[j].value : j \in {k \in 1..Len(raw) : raw[k].is_int /\ raw[k].value > 0}})

RECURSIVE CountByThresholdStrict(_, _, _, _)
CountByThresholdStrict(thresholds, item_count, count, max_count) ==
    IF thresholds = <<>> THEN max_count
    ELSE IF item_count < Head(thresholds) THEN Min2(count, max_count)
    ELSE CountByThresholdStrict(Tail(thresholds), item_count, count + 1, max_count)

RECURSIVE CountByThresholdUncapped(_, _, _, _)
CountByThresholdUncapped(thresholds, item_count, count, max_count) ==
    IF thresholds = <<>> THEN max_count
    ELSE IF item_count <= Head(thresholds) THEN count
    ELSE CountByThresholdUncapped(Tail(thresholds), item_count, count + 1, max_count)

RECURSIVE CountByThreshold(_, _, _, _)
CountByThreshold(thresholds, item_count, count, max_count) ==
    IF thresholds = <<>> THEN max_count
    ELSE IF item_count <= Head(thresholds) THEN Min2(count, max_count)
    ELSE CountByThreshold(Tail(thresholds), item_count, count + 1, max_count)

\* ClusteringAnalyzer._determine_target_count
DetermineTargetCount(item_count) ==
    LET min_count == Max2(1, settings.opinion_count_min)
        max_count == Max2(min_count, settings.opinion_count_max)
        thresholds == ParseThresholds(settings.opinion_count_thresholds)
    IN  IF thresholds = <<>>
        THEN Max2(min_count, Min2(max_count, 3))
        ELSE CountByThreshold(thresholds, item_count, min_count, max_count)

\* ClusteringAnalyzer._extract_points for a text without separators
ClusteringExtractPoints(text) == IF Strip(text) = "" THEN <<>> ELSE <<text>>

\* ClusteringAnalyzer._normalize_points
ClusteringNormalizePoints(points, fallback_text) ==
    IF points.kind = "list" /\ points.all_str /\ points.items # <<>>
    THEN Take(points.items, 4)
    ELSE ClusteringExtractPoints(fallback_text)

\* ClusteringAnalyzer._normalize_key_opinions
RECURSIVE ClusteringNormalizeKeyOpinions(_)
ClusteringNormalizeKeyOpinions(key_opinions) ==
    IF key_opinions = <<>> THEN <<>>
    ELSE LET item == Head(key_opinions)
             title == Strip(item.title)
             description == Strip(item.description)
             rest == ClusteringNormalizeKeyOpinions(Tail(key_opinions))
         IN  IF item.is_dict /\ (title # "" \/ description # "")
             THEN <<[title |-> IF title # "" THEN title ELSE "opinion",
                     description |-> description,
                     points |-> ClusteringNormalizePoints(item.points, description)]>> \o rest
             ELSE rest

FallbackSummary == [is_str |-> TRUE, blank |-> FALSE, markers |-> 0, length |-> 40]

ClusteringNoCatch(e) ==
    IF e.st = "returned"
    THEN [raised |-> FALSE,
          key_opinions |-> ClusteringNormalizeKeyOpinions(e.result.key_opinions),
          summary |-> e.result.summary]
    ELSE [raised |-> TRUE, key_opinions |-> <<>>, summary |-> FallbackSummary]

\* ClusteringAnalyzer.analyze from the end of its await on
Clustering(e) ==
    IF e.st = "returned"
    THEN [raised |-> FALSE,
          key_opinions |-> ClusteringNormalizeKeyOpinions(e.result.key_opinions),
          summary |-> e.result.summary]
    ELSE [raised |-> FALSE, key_opinions |-> PlaceholderOpinions, summary |-> FallbackSummary]

(***************************************************************************)
(* finalize_collection, analyze_task and _run_analysis.                    *)
(***************************************************************************)
PlatformSeq == <<"reddit", "youtube", "x">>

DatasetSizes == {0, 3, 12, 76}

\* Row i of the task: two rows of different platforms may share a source_id
DatasetRow(d, i) ==
    [sid |-> IF i % 10 = 0 THEN i - 1 ELSE i,
     platform |-> PlatformSeq[(i % 3) + 1],
     valid |-> ~d.bad /\ i % 7 # 2,
     metrics |-> [upvotes |-> IF i % 11 = 1 THEN 1 ELSE 5 + ((i * 7) % 13),
                  num_comments |-> 0, views |-> 0, likes |-> 0]]

Datasets == {[n |-> n, bad |-> b] : n \in DatasetSizes, b \in BOOLEAN}

SmallSampleSettings ==
    [DefaultSettings EXCEPT !.semantic_sampling_max_items = 4,
                            !.semantic_sampling_target_count = 2]

\* semantic_sampling_max_items = 0 in the environment
NoCapacitySettings == [DefaultSettings EXCEPT !.semantic_sampling_max_items = 0]

RecordFields ==
    <<"sentiment_score", "key_opinions", "summary", "mermaid_code", "heat_index",
      "total_items", "platform_distribution", "analyzed_at">>

EarlierRecord == [f \in Range(RecordFields) |-> [by |-> "earlier"]]

\* items: the contents of the heaps, platform after platform
HeapItems == Concat([j \in 1..Len(run.platform_order) |->
                        [k \in 1..Len(candidate_heaps[run.platform_order[j]]) |->
                            candidate_heaps[run.platform_order[j]][k][3]]])

NeverEmpty(items) == FALSE

\* `if not items`
NoItems(items) == items = <<>>

PlatformDistribution ==
    [p \in {q \in Platforms : platform_counts[q] > 0} |->
        RoundHalfEven(platform_counts[p] * 100, total)]

\* sorted(engagements)[max(0, int(len(engagements) * 0.9) - 1)]
P90(es) ==
    LET k == Max2(0, (Len(es) * 9) \div 10 - 1) + 1
        rank(j) == Cardinality({i \in 1..Len(es) :
                                   es[i] < es[j] \/ (es[i] = es[j] /\ i < j)}) + 1
    IN  es[CHOOSE j \in 1..Len(es) : rank(j) = k]

\* _calculate_heat_index_from_stats by the quantities its result is computed
\* from: the sum and the 90th percentile of the engagements, the number of
\* items and the number of platforms (expected_count and expected_platforms
\* are columns of the task)
CalculateHeatIndexFromStats(es, sum, total_items, platform_set) ==
    IF es = <<>> THEN [zero |-> TRUE]
    ELSE [zero |-> FALSE,
          total_engagement |-> sum,
          p90_engagement |-> P90(es),
          total_items |-> total_items,
          platforms |-> Cardinality(platform_set)]

HeatIndexOfRetained ==
    CalculateHeatIndexFromStats(
        [j \in 1..Len(HeapItems) |-> WeightedEngagementFromMetrics(HeapItems[j].metrics)],
        total_engagement, Len(HeapItems), Range(run.platform_order))

\* analyze_task, lines 129-136
HeatIndex ==
    CalculateHeatIndexFromStats(engagements, total_engagement, total,
                                {q \in Platforms : platform_counts[q] > 0})

\* The value the run gives a column
FieldValue(f) ==
    [by |-> "run",
     value |-> CASE f = "sentiment_score" -> run.result.sentiment_score
                 [] f = "key_opinions" -> run.result.key_opinions
                 [] f = "summary" -> run.result.summary
                 [] f = "mermaid_code" -> run.result.mermaid_code
                 [] f = "heat_index" -> HeatIndex
                 [] f = "total_items" -> total
                 [] f = "platform_distribution" -> PlatformDistribution
                 [] OTHER -> "utcnow"]

\* What Session.commit writes of the row: the columns set in the session
Flush(record, session) ==
    [f \in DOMAIN record \cup DOMAIN session |->
        IF f \in DOMAIN session THEN session[f] ELSE record[f]]

Running == {"stream", "prepare", "sample", "sentiment", "clustering", "mermaid",
            "write", "complete", "alert"}

pipeVars == <<settings, streamVars, sampleVars, ex, mm, oracle_calls>>

\* _dispatch_analyze_task: analyze_task.delay succeeds in one of max_retries
\* attempts, or the last attempt raises again
DispatchOutcomes == {"sent", "raise"}

\* finalize_collection, lines 188-207: when the dispatch raises, the handler
\* of lines 205-207 logs and returns
FinalizeCollection ==
    /\ pc = "finalize"
    /\ IF run.dataset.n = 0
       THEN /\ pc' = "collect_no_data"
            /\ run' = [run EXCEPT !.task_status = "FAILED", !.task_error = "No data collected"]
            /\ db' = [db EXCEPT !.task_status = "FAILED", !.error_message = "No data collected"]
       ELSE /\ \E outcome \in DispatchOutcomes :
                  pc' = IF outcome = "sent" THEN "stream" ELSE "dispatch_failed"
            /\ UNCHANGED <<run, db>>
    /\ UNCHANGED pipeVars

\* analyze_task, lines 56-93
StreamNext ==
    /\ total < run.dataset.n
    /\ ProcessRaw(DatasetRow(run.dataset, total + 1))

\* analyze_task, lines 95-108
StreamEnd ==
    /\ pc = "stream"
    /\ total = run.dataset.n
    /\ IF total = 0
       THEN /\ pc' = "no_data"
            /\ run' = [run EXCEPT !.task_status = "FAILED", !.task_error = "No data collected"]
            /\ db' = [db EXCEPT !.task_status = "FAILED", !.error_message = "No data collected"]
       ELSE IF NoItems(HeapItems)
            THEN /\ pc' = "no_valid"
                 /\ run' = [run EXCEPT !.task_status = "FAILED",
                                       !.task_error = "No valid data for analysis"]
                 /\ db' = [db EXCEPT !.task_status = "FAILED",
                                     !.error_message = "No valid data for analysis"]
            ELSE /\ pc' = "prepare"
                 /\ UNCHANGED <<run, db>>
    /\ UNCHANGED pipeVars

\* _run_analysis, lines 188-213
Prepare ==
    /\ pc = "prepare"
    /\ LET cleaned_items == Preprocess(HeapItems)
       IN  IF run.semantic
           THEN /\ candidate_items' =
                      ExtractTopItems(cleaned_items, settings.semantic_sampling_max_items)
                /\ pc' = "sample"
                /\ UNCHANGED top_items
           ELSE /\ top_items' = ExtractTopItems(cleaned_items, TopLimit)
                /\ pc' = "sentiment"
                /\ UNCHANGED candidate_items
    /\ UNCHANGED <<settings, streamVars, sample_ret, quota, embed_calls, ex, mm, oracle_calls, taskVars>>

AfterFirstBatch(i, n) == i >= Min2(SentimentBatchSize, n)

\* `for i in range(0, len(items), batch_size)` is exhausted
AllBatchesDone(i, n) == i >= n

\* ClusteringAnalyzer.analyze, lines 126-128
Tallies(results) ==
    [positive_count |-> Len(SelectSeq(results, LAMBDA r : r.score >= 60)),
     neutral_count |-> Len(SelectSeq(results, LAMBDA r : 40 <= r.score /\ r.score < 60)),
     negative_count |-> Len(SelectSeq(results, LAMBDA r : r.score < 40))]

\* analyze_batch: the next batch starts its call
SentimentStartBatch ==
    /\ pc = "sentiment"
    /\ ex.st = "idle"
    /\ ~AllBatchesDone(run.i, Len(top_items))
    /\ ex' = NewCall("sentiment", BatchEnd(run.i, Len(top_items)) - run.i)
    /\ UNCHANGED <<pc, settings, streamVars, sampleVars, mm, oracle_calls, taskVars>>

\* _analyze_single_batch returns; results.extend(batch_results)
SentimentBatchDone ==
    /\ pc = "sentiment"
    /\ ex.st \in {"returned", "raised"}
    /\ LET batch == SubSeq(top_items, run.i + 1, BatchEnd(run.i, Len(top_items)))
           out == SentimentBatch(batch, ex)
       IN  IF out.raised
           THEN /\ pc' = "exception"
                /\ run' = [run EXCEPT !.exc = "sentiment"]
           ELSE /\ pc' = pc
                /\ run' = [run EXCEPT !.i = BatchEnd(run.i, Len(top_items)),
                                      !.sentiment_results = @ \o out.results,
                                      !.fallbacks = IF ex.st = "raised"
                                                    THEN @ \cup {"sentiment"} ELSE @]
    /\ ex' = IdleEx
    /\ UNCHANGED <<settings, streamVars, sampleVars, mm, oracle_calls, db>>

\* _run_analysis, lines 218-228: the score, then analyze counts the results
\* and the clustering call starts
SentimentDone ==
    /\ pc = "sentiment"
    /\ ex.st = "idle"
    /\ AllBatchesDone(run.i, Len(top_items))
    /\ run' = [run EXCEPT !.sentiment_score = CalculateWeightedScore(run.sentiment_results),
                          !.tallies = Tallies(run.sentiment_results)]
    /\ ex' = NewCall("clustering", DetermineTargetCount(Len(top_items)))
    /\ pc' = "clustering"
    /\ UNCHANGED <<settings, streamVars, sampleVars, mm, oracle_calls, db>>

\* clustering_analyzer.analyze returns; mermaid_generator.generate starts
ClusteringDone ==
    /\ pc = "clustering"
    /\ ex.st \in {"returned", "raised"}
    /\ LET out == Clustering(ex)
       IN  IF out.raised
           THEN /\ pc' = "exception"
                /\ run' = [run EXCEPT !.exc = "clustering"]
                /\ UNCHANGED mm
           ELSE /\ pc' = "mermaid"
                /\ run' = [run EXCEPT !.clustering_result =
                                          [key_opinions |-> out.key_opinions,
                                           summary |-> out.summary],
                                      !.fallbacks = IF ex.st = "raised"
                                                    THEN @ \cup {"clustering"} ELSE @]
                /\ mm' = NewMermaid("kw", out.key_opinions, run.sentiment_score)
    /\ ex' = IdleEx
    /\ UNCHANGED <<settings, streamVars, sampleVars, oracle_calls, db>>

\* generate returns; _run_analysis returns its dict, lines 233-238
MermaidDone ==
    /\ pc = "mermaid"
    /\ mm.st = "returned"
    /\ run' = [run EXCEPT !.result = [sentiment_score |-> run.sentiment_score,
                                      key_opinions |-> run.clustering_result.key_opinions,
                                      summary |-> run.clustering_result.summary,
                                      mermaid_code |-> mm.result],
                          !.fallbacks = IF mm.via = "fallback" THEN @ \cup {"mermaid"} ELSE @]
    /\ mm' = IdleMm
    /\ pc' = "write"
    /\ UNCHANGED <<settings, streamVars, sampleVars, ex, oracle_calls, db>>

\* analyze_task, lines 142-150: the row exists, one column is assigned
AssignField ==
    /\ pc = "write"
    /\ db.record # NoRecord
    /\ LET f == RecordFields[Cardinality(DOMAIN run.session) + 1]
       IN  /\ run' = [run EXCEPT !.session = Flush(@, [g \in {f} |-> FieldValue(g)])]
           /\ pc' = IF f = RecordFields[Len(RecordFields)] THEN "complete" ELSE pc
    /\ UNCHANGED <<db, pipeVars>>

\* analyze_task, lines 151-162: AnalysisResult(...) and db.add
AddRecord ==
    /\ pc = "write"
    /\ db.record = NoRecord
    /\ run' = [run EXCEPT !.session =
                  [f \in Range(RecordFields) |->
                      IF f = "analyzed_at" THEN [by |-> "run", value |-> "default"]
                      ELSE FieldValue(f)]]
    /\ pc' = "complete"
    /\ UNCHANGED <<db, pipeVars>>

\* analyze_task, lines 164-166
CommitCompleted ==
    /\ pc = "complete"
    /\ run' = [run EXCEPT !.task_status = "COMPLETED", !.session = NoRecord]
    /\ db' = [db EXCEPT !.task_status = "COMPLETED", !.progress = 100,
                        !.record = Flush(@, run.session),
                        !.writer = "line 166",
                        !.record_commits = @ + 1]
    /\ pc' = "alert"
    /\ UNCHANGED pipeVars

\* _check_and_create_alert: no alert, an alert row committed, or a database error
CheckAndCreateAlert ==
    /\ pc = "alert"
    /\ \E outcome \in {"quiet", "alert", "raise"} :
          /\ pc' = IF outcome = "raise" THEN "exception" ELSE "done"
          /\ db' = [db EXCEPT !.alerts = IF outcome = "alert" THEN @ + 1 ELSE @]
          /\ run' = [run EXCEPT !.exc = IF outcome = "raise" THEN "alert" ELSE @]
    /\ UNCHANGED pipeVars

\* The frames of _run_analysis are left: its locals are gone
LeaveRunAnalysis(r) ==
    [r EXCEPT !.i = 0, !.sentiment_results = <<>>, !.sentiment_score = 50,
              !.tallies = NoValue,
              !.clustering_result = NoValue, !.fallbacks = {}]

\* analyze_task is left: what remains is the task row in memory
LeaveAnalyzeTask(r) ==
    [NewRun(r.dataset, r.semantic) EXCEPT !.platform_order = r.platform_order,
                                          !.exc = r.exc,
                                          !.task_status = r.task_status,
                                          !.task_error = r.task_error]

\* analyze_task, lines 172-176: `except Exception` and its commit
ExceptHandler ==
    /\ pc = "exception"
    /\ run' = [LeaveAnalyzeTask(run) EXCEPT !.task_status = "FAILED", !.task_error = run.exc]
    /\ db' = [db EXCEPT !.task_status = "FAILED", !.error_message = run.exc,
                        !.record = Flush(@, run.session),
                        !.writer = IF run.session = NoRecord THEN @ ELSE "line 175",
                        !.record_commits = IF run.session = NoRecord THEN @ ELSE @ + 1]
    /\ pc' = "failed"
    /\ UNCHANGED pipeVars

\* task_soft_time_limit: SoftTimeLimitExceeded is raised inside the task,
\* wherever it is, and goes up to the handler of analyze_task
SoftTimeLimit ==
    /\ pc \in Running
    /\ pc' = "exception"
    /\ run' = [LeaveRunAnalysis(run) EXCEPT !.exc = "SoftTimeLimitExceeded"]
    /\ candidate_items' = <<>>
    /\ top_items' = <<>>
    /\ ex' = IdleEx
    /\ mm' = IdleMm
    /\ UNCHANGED <<settings, streamVars, sample_ret, quota, embed_calls, oracle_calls, db>>

\* task_time_limit: the worker process is killed; nothing of it is left
HardTimeLimit ==
    /\ pc \in Running \cup {"exception"}
    /\ pc' = "killed"
    /\ run' = [LeaveAnalyzeTask(run) EXCEPT !.exc = "killed"]
    /\ candidate_items' = <<>>
    /\ top_items' = <<>>
    /\ ex' = IdleEx
    /\ mm' = IdleMm
    /\ UNCHANGED <<settings, streamVars, sample_ret, quota, embed_calls, oracle_calls, db>>

\* The task has been collected: finalize_collection runs and sends
\* analyze_task, or analyze_task has been sent for the task directly.
Init ==
    /\ pc \in {"finalize", "stream"}
    /\ settings \in {DefaultSettings, SmallSampleSettings, NoCapacitySettings}
    /\ total = 0
    /\ platform_counts = [p \in Platforms |-> 0]
    /\ candidate_heaps = [p \in Platforms |-> <<>>]
    /\ heap_counter = 0
    /\ engagements = <<>>
    /\ total_engagement = 0
    /\ seen = [p \in Platforms |-> 0]
    /\ lastDrop = NoDrop
    /\ maxDropped = [p \in Platforms |-> -1]
    /\ arrived = [p \in Platforms |-> <<>>]
    /\ candidate_items = <<>>
    /\ top_items = <<>>
    /\ sample_ret = NoSample
    /\ quota = NoQuota
    /\ embed_calls = 0
    /\ ex = IdleEx
    /\ mm = IdleMm
    /\ oracle_calls = 0
    /\ run \in {NewRun(d, s) : d \in Datasets, s \in BOOLEAN}
    /\ db \in {NewDb(NoRecord), NewDb(EarlierRecord)}

Next ==
    \/ FinalizeCollection
    \/ StreamNext
    \/ StreamEnd
    \/ Prepare
    \/ SamplerSample
    \/ SentimentStartBatch
    \/ AnalyzeJsonDraft
    \/ AnalyzeJsonOnDraft
    \/ AnalyzeJsonOnRepair
    \/ SentimentBatchDone
    \/ SentimentDone
    \/ ClusteringDone
    \/ MermaidDraft
    \/ MermaidOnDraft
    \/ MermaidOnRepair
    \/ MermaidDone
    \/ AssignField
    \/ AddRecord
    \/ CommitCompleted
    \/ CheckAndCreateAlert
    \/ ExceptHandler
    \/ SoftTimeLimit
    \/ HardTimeLimit

Spec == Init /\ [][Next]_vars

(***************************************************************************)
(* Claims about a whole run.                                               *)
(***************************************************************************)
AfterRunAnalysis == {"write", "complete", "alert", "done"}

\* C7: whatever the oracle does in the sentiment, clustering and diagram
\* stages, no exception leaves a stage: a stage whose extraction failed
\* substitutes its fallback, and when _run_analysis has returned its result
\* has a sentiment_score, key_opinions, a summary and mermaid_code.
C7_NoOracleException ==
    /\ run.exc \notin {"sentiment", "clustering", "mermaid"}
    /\ db.error_message \notin {"sentiment", "clustering", "mermaid"}
    /\ (mm.st = "returned" /\ mm.last = RaiseReply) =>
          mm.via = "fallback" /\ mm.result = MermaidFallback(mm)
    /\ pc \in AfterRunAnalysis => run.result # NoValue
    /\ run.result # NoValue =>
          /\ run.result.sentiment_score \in 0..100
          /\ run.result.key_opinions # <<>>
          /\ run.result.summary.is_str
          /\ run.result.mermaid_code # <<>>
          /\ Len(run.sentiment_results) = Len(top_items)
          /\ "sentiment" \in run.fallbacks =>
                \E j \in 1..Len(run.sentiment_results) : run.sentiment_results[j].score = 50
          /\ "clustering" \in run.fallbacks =>
                /\ run.result.key_opinions = PlaceholderOpinions
                /\ run.result.summary = FallbackSummary
          /\ "mermaid" \in run.fallbacks =>
                run.result.mermaid_code =
                    GenerateFallback("kw", MermaidNormalizeKeyOpinions(run.result.key_opinions),
                                     GetSentimentLabel(run.result.sentiment_score))

C7_Witness ==
    /\ pc = "done"
    /\ db.task_status = "COMPLETED"
    /\ run.fallbacks = {"sentiment", "clustering", "mermaid"}
    /\ \A j \in 1..Len(run.sentiment_results) : run.sentiment_results[j].score = 50
    /\ Len(top_items) > SentimentBatchSize

AllHeapsEmpty == \A p \in Platforms : candidate_heaps[p] = <<>>

\* C8: a task without raw items is marked FAILED with a no-data error and
\* analyze_task returns before any embedding or oracle call; the same when
\* no raw item passes the validity filter.
C8_NoDataShortCircuit ==
    /\ pc = "no_data" =>
          /\ total = 0
          /\ db.task_status = "FAILED" /\ db.error_message = "No data collected"
    /\ pc = "no_valid" =>
          /\ total > 0 /\ AllHeapsEmpty
          /\ db.task_status = "FAILED" /\ db.error_message = "No valid data for analysis"
    /\ pc \in {"no_data", "no_valid", "collect_no_data"} =>
          /\ db.record = db.initial
          /\ ~ENABLED Next
    /\ (AllHeapsEmpty /\ total = run.dataset.n) =>
          /\ oracle_calls = 0 /\ embed_calls = 0
          /\ pc \in {"finalize", "collect_no_data", "stream", "no_data", "no_valid",
                     "exception", "failed", "killed"}

C8_Witness ==
    /\ pc = "no_data"
    /\ total = 0
    /\ db.task_status = "FAILED"
    /\ oracle_calls = 0 /\ embed_calls = 0

C8_WitnessNoValid ==
    /\ pc = "no_valid"
    /\ total = 12
    /\ db.error_message = "No valid data for analysis"

CeilDiv(a, b) == (a + b - 1) \div b

SampleSizeCap ==
    IF run.semantic
    THEN Min2(Sampler(settings).target_count, Sampler(settings).max_items)
    ELSE TopLimit

\* C9: the oracle calls of a run number at most 2 * (ceil(M / 10) + 2),
\* M the number of items given to the sentiment stage, and M is at most 50
\* without semantic sampling and min(target_count, max_items) with it,
\* however many rows the task has.
Unwound == {"exception", "failed", "killed"}

C9_BoundedOracleCalls ==
    /\ pc \notin Unwound =>
          /\ oracle_calls <= 2 * (CeilDiv(Len(top_items), SentimentBatchSize) + 2)
          /\ Len(run.sentiment_results) <= Len(top_items)
    /\ pc \in Unwound => ex.st = "idle" /\ mm.st = "idle"
    /\ Len(top_items) <= SampleSizeCap

C9_Witness ==
    /\ pc = "done"
    /\ total = 76
    /\ ~run.semantic
    /\ Len(top_items) = TopLimit
    /\ oracle_calls = 14

C9_WitnessSampled ==
    /\ pc = "done"
    /\ total = 76
    /\ run.semantic
    /\ sample_ret.path = "clustered"
    /\ Len(top_items) = SampleSizeCap
    /\ oracle_calls = 2 * (CeilDiv(Len(top_items), SentimentBatchSize) + 2)

\* C10: the run commits its analysis row at most once, with every column
\* set by one commit taken after the sentiment, clustering, diagram and heat
\* computations; a run that stops before that (no data, an exception, a
\* cancellation) commits no row and no part of one.
C10_RecordAtomicOnce ==
    /\ db.record_commits <= 1
    /\ db.record # db.initial =>
          /\ db.writer = "line 166"
          /\ db.task_status \in {"COMPLETED", "FAILED"}
          /\ \A f \in Range(RecordFields) : db.record[f].by = "run"
    /\ db.writer = "none" <=> db.record_commits = 0
    /\ db.record_commits = 0 => db.record = db.initial

\* C11: the sentiment stage returns one result per input item, the i-th
\* result carrying the source_id of the i-th item, whatever the size of the
\* batches and whichever of them succeed or fall back: while the stage runs
\* the results are those of the items before the next batch, in item order,
\* and once it has returned there is one for every item.
C11_OneResultPerItemInOrder ==
    pc \in {"sentiment", "clustering", "mermaid"} \cup AfterRunAnalysis =>
        /\ Len(run.sentiment_results) = run.i
        /\ run.i <= Len(top_items)
        /\ pc # "sentiment" => run.i = Len(top_items)
        /\ \A j \in 1..Len(run.sentiment_results) :
              /\ run.sentiment_results[j].source_id = top_items[j].sid
              /\ run.sentiment_results[j].platform = top_items[j].platform

\* A run of several batches, the last one shorter, some answered and some not
C11_Witness ==
    /\ pc = "clustering"
    /\ Len(top_items) > SentimentBatchSize
    /\ Len(top_items) % SentimentBatchSize # 0
    /\ "sentiment" \in run.fallbacks
    /\ \E j \in 1..Len(run.sentiment_results) : run.sentiment_results[j].key_phrases # <<>>
    /\ \A j \in 1..Len(top_items) : run.sentiment_results[j].source_id = top_items[j].sid

\* The batch whose call has just ended, and its results built by line 84
EndedBatch == SubSeq(top_items, run.i + 1, BatchEnd(run.i, Len(top_items)))

TotalFailureStep ==
    /\ pc = "sentiment" /\ pc' = "sentiment"
    /\ ex.st = "raised" /\ ex'.st = "idle"

\* C12: when the extraction of a sentiment batch fails totally (the oracle
\* raises, or draft and repair are both invalid), every item of that batch
\* gets score 50 and an empty key_phrases list, and the results of the
\* batches before it stay as they were produced; no step of the stage
\* changes a result that is already in the list.
C12_BatchFallback ==
    [][/\ TotalFailureStep =>
            /\ Len(run'.sentiment_results) = Len(run.sentiment_results) + Len(EndedBatch)
            /\ \A j \in 1..Len(EndedBatch) :
                  LET r == run'.sentiment_results[Len(run.sentiment_results) + j]
                  IN  /\ r.source_id = EndedBatch[j].sid
                      /\ r.score = 50
                      /\ r.key_phrases = <<>>
       /\ (pc = "sentiment" /\ pc' \in {"sentiment", "clustering"}) =>
            /\ Len(run'.sentiment_results) >= Len(run.sentiment_results)
            /\ SubSeq(run'.sentiment_results, 1, Len(run.sentiment_results))
                  = run.sentiment_results]_vars

\* A batch has fallen back after an answered one, whose results are kept
C12_Witness ==
    /\ pc = "sentiment"
    /\ ex.st = "idle"
    /\ run.i = 2 * SentimentBatchSize
    /\ \A j \in 1..SentimentBatchSize :
          /\ run.sentiment_results[j].score = 30
          /\ run.sentiment_results[j].key_phrases # <<>>
          /\ run.sentiment_results[SentimentBatchSize + j].score = 50
          /\ run.sentiment_results[SentimentBatchSize + j].key_phrases = <<>>
          /\ run.sentiment_results[SentimentBatchSize + j].engagement = 0

\* The diagram extraction has failed: a call raised, or both replies are invalid
DiagramFailed ==
    /\ mm.st = "returned"
    /\ \/ mm.last = RaiseReply
       \/ /\ mm.calls = 2
          /\ mm.last.tag = "text"
          /\ ~ValidateMermaidOutput(ExtractMermaidCode(mm.last)).valid

OpinionBranches(code) ==
    Cardinality({i \in 1..Len(code) : code[i].indent = 4 /\ code[i].text # Plain("Sentiment")})

\* C13: when the diagram extraction fails (both replies invalid, or the
\* oracle raises on either call), generate returns the outline that
\* _generate_fallback builds from the clustering payload: a mindmap line, the
\* root, the Sentiment branch with its label and one branch for each of the
\* first six normalized opinions. It has made at most two oracle calls and
\* makes none afterwards, for every payload, the one-opinion placeholder
\* and the empty list included.
C13_DiagramFallback ==
    /\ DiagramFailed =>
          /\ mm.via = "fallback"
          /\ mm.result = GenerateFallback(mm.keyword,
                                          MermaidNormalizeKeyOpinions(mm.key_opinions),
                                          GetSentimentLabel(mm.sentiment_score))
          /\ SubSeq(mm.result, 1, 4) =
                <<Line(0, Plain("mindmap")),
                  Line(2, RootDecl(IF mm.keyword = " " THEN "Point" ELSE mm.keyword)),
                  Line(4, Plain("Sentiment")),
                  Line(6, Plain(GetSentimentLabel(mm.sentiment_score)))>>
          /\ OpinionBranches(mm.result) = Min2(6, Len(mm.key_opinions))
          /\ mm.calls \in 1..2
          /\ oracle_calls = mm.calls
          /\ ~ENABLED MermaidDraft /\ ~ENABLED MermaidOnDraft /\ ~ENABLED MermaidOnRepair
    /\ mm.st \in {"idle", "call", "await_draft", "await_repair", "returned"}
    /\ mm.via = "fallback" => DiagramFailed

\* Both replies invalid, for the placeholder of the clustering fallback
C13_Witness ==
    /\ pc = "extract"
    /\ DiagramFailed
    /\ mm.last # RaiseReply
    /\ mm.key_opinions = PlaceholderOpinions
    /\ mm.via = "fallback"
    /\ OpinionBranches(mm.result) = 1

\* The repair call raises, for an empty opinion list
C13_WitnessEmpty ==
    /\ pc = "extract"
    /\ DiagramFailed
    /\ mm.last = RaiseReply
    /\ mm.calls = 2
    /\ mm.key_opinions = <<>>
    /\ Len(mm.result) = 4

\* C14: the clustering call is issued only after every sentiment batch has
\* returned, by success or by fallback, and its tallies count the results of
\* all items; the diagram call is issued only after the clustering stage
\* has returned, on the opinions it returned; no two stages have a call in
\* flight together.
C14_StageOrder ==
    /\ (ex.kind = "clustering" /\ ex.st # "idle") =>
          /\ pc = "clustering"
          /\ run.i = Len(top_items)
          /\ Len(run.sentiment_results) = Len(top_items)
          /\ run.tallies = Tallies(run.sentiment_results)
          /\ run.tallies.positive_count + run.tallies.neutral_count
                + run.tallies.negative_count = Len(top_items)
          /\ run.clustering_result = NoValue
    /\ (ex.kind = "sentiment" /\ ex.st # "idle") =>
          /\ pc = "sentiment"
          /\ run.tallies = NoValue
          /\ run.clustering_result = NoValue
    /\ mm.st # "idle" =>
          /\ pc = "mermaid"
          /\ ex.st = "idle"
          /\ run.clustering_result # NoValue
          /\ mm.key_opinions = run.clustering_result.key_opinions
          /\ mm.sentiment_score = run.sentiment_score
          /\ run.tallies = Tallies(run.sentiment_results)
    /\ pc = "sentiment" => mm.st = "idle" /\ run.tallies = NoValue
    /\ pc = "clustering" => mm.st = "idle"

\* The diagram call of a run of six batches, one of them fallen back
C14_Witness ==
    /\ pc = "mermaid"
    /\ mm.st = "await_draft"
    /\ Len(top_items) > 2 * SentimentBatchSize
    /\ run.tallies.neutral_count = SentimentBatchSize
    /\ run.tallies.negative_count = Len(top_items) - SentimentBatchSize
    /\ run.clustering_result.key_opinions = ClusteringNormalizeKeyOpinions(GoodOpinions(6))

(***************************************************************************)
(* _determine_target_count on its own: analyze of ClusteringAnalyzer for   *)
(* every item count and every setting of the opinion counts.               *)
(***************************************************************************)
MaxItemCount == 100

ThresholdStrings ==
    {DefaultSettings.opinion_count_thresholds,
     <<>>,
     <<JunkPart>>,
     <<IntPart(0), IntPart(-5)>>,
     <<IntPart(12)>>,
     <<IntPart(24), JunkPart, IntPart(12), IntPart(24)>>,
     <<IntPart(2), IntPart(4), IntPart(6), IntPart(8), IntPart(10), IntPart(12)>>,
     <<IntPart(99), IntPart(100), IntPart(0), IntPart(1)>>}

PlannerSettings ==
    {[DefaultSettings EXCEPT !.opinion_count_min = lo, !.opinion_count_max = hi,
                             !.opinion_count_thresholds = raw] :
        lo \in {-1, 1, 2, 4}, hi \in {0, 3, 6}, raw \in ThresholdStrings}

PlannerItems(n) == [j \in 1..n |-> DatasetRow([n |-> n, bad |-> FALSE], j)]

InitPlanner ==
    /\ pc = "plan"
    /\ settings \in PlannerSettings
    /\ total = 0
    /\ platform_counts = [p \in Platforms |-> 0]
    /\ candidate_heaps = [p \in Platforms |-> <<>>]
    /\ heap_counter = 0
    /\ engagements = <<>>
    /\ total_engagement = 0
    /\ seen = [p \in Platforms |-> 0]
    /\ lastDrop = NoDrop
    /\ maxDropped = [p \in Platforms |-> -1]
    /\ arrived = [p \in Platforms |-> <<>>]
    /\ candidate_items = <<>>
    /\ top_items \in {PlannerItems(n) : n \in 0..MaxItemCount}
    /\ sample_ret = NoSample
    /\ quota = NoQuota
    /\ embed_calls = 0
    /\ ex = IdleEx
    /\ mm = IdleMm
    /\ oracle_calls = 0
    /\ run = IdleRun
    /\ db = NewDb(NoRecord)

\* ClusteringAnalyzer.analyze, line 130, and the expected_count of its validator
DetermineTarget ==
    /\ pc = "plan"
    /\ ex' = NewCall("clustering", DetermineTargetCount(Len(top_items)))
    /\ pc' = "planned"
    /\ UNCHANGED <<settings, streamVars, sampleVars, mm, oracle_calls, taskVars>>

NextPlanner == DetermineTarget

SpecPlanner == InitPlanner /\ [][NextPlanner]_vars

PlannerMin == Max2(1, settings.opinion_count_min)

PlannerMax == Max2(PlannerMin, settings.opinion_count_max)

\* The positive integers of the string
ThresholdSet ==
    {v \in 1..(MaxItemCount + 1) :
        \E j \in 1..Len(settings.opinion_count_thresholds) :
            settings.opinion_count_thresholds[j] = IntPart(v)}

\* C15: with min_count = max(1, opinion_count_min), max_count =
\* max(min_count, opinion_count_max) and the thresholds the positive integers
\* of the setting, _determine_target_count(N) is min(min_count + j, max_count)
\* when N is at most the largest threshold, j the number of thresholds
\* strictly smaller than N; max_count when N is larger than every threshold;
\* 3 clamped to [min_count, max_count] when there is no threshold. With
\* thresholds 12,24,36,48, min 2 and max 6: 5 -> 2, 20 -> 3, 40 -> 5, 100 -> 6.
C15_TargetCount ==
    pc = "planned" =>
        LET N == Len(top_items)
            j == Cardinality({v \in ThresholdSet : v < N})
        IN  /\ ex.kind = "clustering"
            /\ ThresholdSet = {} => ex.expected = Max2(PlannerMin, Min2(PlannerMax, 3))
            /\ (ThresholdSet # {} /\ \E v \in ThresholdSet : N <= v) =>
                  ex.expected = Min2(PlannerMin + j, PlannerMax)
            /\ (ThresholdSet # {} /\ \A v \in ThresholdSet : N > v) =>
                  ex.expected = PlannerMax
            /\ settings = DefaultSettings =>
                  /\ N = 5 => ex.expected = 2
                  /\ N = 20 => ex.expected = 3
                  /\ N = 40 => ex.expected = 5
                  /\ N = 100 => ex.expected = 6
                  /\ N = 12 => ex.expected = 2
                  /\ N = 13 => ex.expected = 3

C15_Witness ==
    /\ pc = "planned"
    /\ settings = DefaultSettings
    /\ Len(top_items) = 40
    /\ ex.expected = 5

C15_WitnessUnsorted ==
    /\ pc = "planned"
    /\ settings.opinion_count_thresholds = <<IntPart(24), JunkPart, IntPart(12), IntPart(24)>>
    /\ settings.opinion_count_min = 1 /\ settings.opinion_count_max = 6
    /\ Len(top_items) = 24
    /\ ex.expected = 2

\* C16: for fixed thresholds, min_count and max_count the target count is
\* monotonic non-decreasing in the item count: no smaller item count gets
\* a larger target, also when there are fewer or more thresholds than
\* max_count - min_count.
C16_Monotonic ==
    pc = "planned" =>
        \A n1 \in 0..Len(top_items) : DetermineTargetCount(n1) <= ex.expected

\* More thresholds than max_count - min_count, after the last of them
C16_Witness ==
    /\ pc = "planned"
    /\ Cardinality(ThresholdSet) > PlannerMax - PlannerMin
    /\ PlannerMax > PlannerMin
    /\ Len(top_items) > 12
    /\ ex.expected = PlannerMax
    /\ DetermineTargetCount(0) < ex.expected

C16_WitnessFewer ==
    /\ pc = "planned"
    /\ settings.opinion_count_thresholds = <<IntPart(12)>>
    /\ PlannerMin = 1 /\ PlannerMax = 6
    /\ Len(top_items) = 13
    /\ ex.expected = 6
    /\ DetermineTargetCount(12) = 1

(***************************************************************************)
(* calculate_weighted_score on its own, for every short list of results.   *)
(***************************************************************************)
MaxResults == 2

ResultScores == {0, 49, 50, 51, 100}

ResultEngagements == {-15, 0, 9, 10, 25}

ResultLists ==
    UNION {[1..n -> {[source_id |-> 1, score |-> s, key_phrases |-> <<>>,
                      platform |-> "reddit", engagement |-> e] :
                        s \in ResultScores, e \in ResultEngagements}] : n \in 0..MaxResults}

InitAggregate ==
    /\ pc = "aggregate"
    /\ settings = DefaultSettings
    /\ total = 0
    /\ platform_counts = [p \in Platforms |-> 0]
    /\ candidate_heaps = [p \in Platforms |-> <<>>]
    /\ heap_counter = 0
    /\ engagements = <<>>
    /\ total_engagement = 0
    /\ seen = [p \in Platforms |-> 0]
    /\ lastDrop = NoDrop
    /\ maxDropped = [p \in Platforms |-> -1]
    /\ arrived = [p \in Platforms |-> <<>>]
    /\ candidate_items = <<>>
    /\ top_items = <<>>
    /\ sample_ret = NoSample
    /\ quota = NoQuota
    /\ embed_calls = 0
    /\ ex = IdleEx
    /\ mm = IdleMm
    /\ oracle_calls = 0
    /\ run \in {[IdleRun EXCEPT !.sentiment_results = rs, !.i = Len(rs)] : rs \in ResultLists}
    /\ db = NewDb(NoRecord)

\* _run_analysis, line 218
CalculateScore ==
    /\ pc = "aggregate"
    /\ run' = [run EXCEPT !.sentiment_score = CalculateWeightedScore(run.sentiment_results)]
    /\ pc' = "aggregated"
    /\ UNCHANGED <<settings, streamVars, sampleVars, ex, mm, oracle_calls, db>>

NextAggregate == CalculateScore

SpecAggregate == InitAggregate /\ [][NextAggregate]_vars

\* v is round(a / b) of Python for b > 0: a nearest integer, the even one of two
IsRounded(v, a, b) ==
    /\ 2 * (v * b - a) <= b
    /\ 2 * (a - v * b) <= b
    /\ (2 * (v * b - a) = b \/ 2 * (a - v * b) = b) => v % 2 = 0

\* C17: calculate_weighted_score returns round(sum(score_i * w_i) / sum(w_i))
\* with w_i = max(1, engagement_i // 10 + 1), round being that of Python
\* (a half goes to the even integer): with one engagement for all items the
\* result is the rounded arithmetic mean of the scores, with all scores 50
\* it is 50 whatever the engagements, and for no results it is 50.
C17_WeightedScore ==
    pc = "aggregated" =>
        LET rs == run.sentiment_results
            n == Len(rs)
            w == [j \in 1..n |-> IF rs[j].engagement < 0 THEN 1
                                 ELSE rs[j].engagement \div 10 + 1]
            sw == [j \in 1..n |-> rs[j].score * w[j]]
            s == [j \in 1..n |-> rs[j].score]
        IN  /\ n = 0 => run.sentiment_score = 50
            /\ n > 0 => IsRounded(run.sentiment_score, SumOver(sw, 1..n), SumOver(w, 1..n))
            /\ (n > 0 /\ \A j \in 1..n : rs[j].engagement = rs[1].engagement) =>
                  IsRounded(run.sentiment_score, SumOver(s, 1..n), n)
            /\ (\A j \in 1..n : rs[j].score = 50) => run.sentiment_score = 50

\* Scores 100 and 0 with engagements 25 and 9: weights 3 and 1 give 75, not 50
C17_Witness ==
    /\ pc = "aggregated"
    /\ Len(run.sentiment_results) = 2
    /\ run.sentiment_results[1].score = 100 /\ run.sentiment_results[1].engagement = 25
    /\ run.sentiment_results[2].score = 0 /\ run.sentiment_results[2].engagement = 9
    /\ run.sentiment_score = 75

\* Uniform engagement and a mean of 50.5: the result is 50
C17_WitnessHalf ==
    /\ pc = "aggregated"
    /\ Len(run.sentiment_results) = 2
    /\ run.sentiment_results[1].score = 50 /\ run.sentiment_results[1].engagement = 25
    /\ run.sentiment_results[2].score = 51 /\ run.sentiment_results[2].engagement = 25
    /\ run.sentiment_score = 50

OpinionKeys == {"title", "description", "points"}

HasOpinionShape(op) ==
    /\ OpinionKeys \subseteq DOMAIN op
    /\ DOMAIN op.points = 1..Len(op.points)
    /\ \A k \in 1..Len(op.points) : op.points[k] \notin {"", " "}

\* C18: every entry of key_opinions in the result of the run, and in the
\* record the run commits, has a title, a description and a points list of
\* strings, when the clustering succeeded and when it fell back to the
\* placeholder opinion.
C18_OpinionShape ==
    /\ run.result # NoValue =>
          \A j \in 1..Len(run.result.key_opinions) :
              HasOpinionShape(run.result.key_opinions[j])
    /\ ("key_opinions" \in DOMAIN db.record /\ db.record["key_opinions"].by = "run") =>
          \A j \in 1..Len(db.record["key_opinions"].value) :
              HasOpinionShape(db.record["key_opinions"].value[j])

\* preprocess has been called on the items of the heaps
Prepared == {"sample", "sentiment", "clustering", "mermaid", "write", "complete", "alert", "done"}

IdentityKey(item) == <<item.platform, item.sid>>

\* C19: preprocess treats two items as duplicates exactly when they share
\* the identity key (platform, source_id): its output has at most one item
\* for a key, the item kept for a key is the first valid one of the input
\* with that key, and valid items that differ in platform or in source_id
\* are all kept.
C19_DedupByIdentityKey ==
    pc \in Prepared =>
        LET items == HeapItems
            out == Preprocess(items)
            first(key) == CHOOSE j \in 1..Len(items) :
                              /\ IsValid(items[j]) /\ IdentityKey(items[j]) = key
                              /\ \A k \in 1..(j - 1) :
                                    ~(IsValid(items[k]) /\ IdentityKey(items[k]) = key)
        IN  /\ \A a, b \in 1..Len(out) :
                  a # b => IdentityKey(out[a]) # IdentityKey(out[b])
            /\ \A a \in 1..Len(out) : out[a] = items[first(IdentityKey(out[a]))]
            /\ \A j \in 1..Len(items) :
                  IsValid(items[j]) =>
                      \E a \in 1..Len(out) : IdentityKey(out[a]) = IdentityKey(items[j])

(***************************************************************************)
(* DataPreprocessor._is_valid by what it tests, inside the loop of         *)
(* preprocess.  An item carries the length of its text, whether its author *)
(* matches bot_regex, whether its text matches ad_regex, and what          *)
(* langdetect.detect does on the text: a language code or                  *)
(* LangDetectException.                                                    *)
(***************************************************************************)
MaxFilterItems == 2

MinLength == 10

MaxLength == 5000

DetectMinLength == 50

DetectorFails == "LangDetectException"

\* _run_analysis, line 188
TargetLanguage(report_language) == IF report_language # "auto" THEN report_language ELSE "en"

IsValidItemFailClosed(item, target_language) ==
    IF item.text_len < MinLength \/ item.text_len > MaxLength THEN FALSE
    ELSE IF item.author_bot THEN FALSE
    ELSE IF item.text_ad THEN FALSE
    ELSE IF item.text_len > DetectMinLength
         THEN IF item.detect = DetectorFails THEN FALSE
              ELSE IF target_language = "en" /\ item.detect # "en" THEN FALSE
              ELSE IF target_language = "zh" /\ item.detect \notin {"zh-cn", "zh-tw", "zh"}
                   THEN FALSE
              ELSE TRUE
         ELSE TRUE

\* DataPreprocessor._is_valid
IsValidItem(item, target_language) ==
    IF item.text_len < MinLength \/ item.text_len > MaxLength THEN FALSE
    ELSE IF item.author_bot THEN FALSE
    ELSE IF item.text_ad THEN FALSE
    ELSE IF item.text_len > DetectMinLength
         THEN IF item.detect = DetectorFails THEN TRUE
              ELSE IF target_language = "en" /\ item.detect # "en" THEN FALSE
              ELSE IF target_language = "zh" /\ item.detect \notin {"zh-cn", "zh-tw", "zh"}
                   THEN FALSE
              ELSE TRUE
         ELSE TRUE

FilterItem(len, bot, ad, detect) ==
    [sid |-> 0, platform |-> "reddit", text_len |-> len, author_bot |-> bot, text_ad |-> ad,
     detect |-> detect,
     metrics |-> [upvotes |-> len % 7, num_comments |-> 0, views |-> 0, likes |-> 0]]

FilterItems ==
    {FilterItem(5, FALSE, FALSE, "en"), FilterItem(6000, FALSE, FALSE, DetectorFails)}
    \cup {FilterItem(30, bot, ad, "fr") : bot, ad \in BOOLEAN}
    \cup {FilterItem(len, bot, ad, d) :
            len \in {51, 5000}, bot, ad \in BOOLEAN, d \in {"en", "zh-cn", "fr", DetectorFails}}

ReportLanguages == {"auto", "en", "zh", "ja"}

InitFilter ==
    /\ pc = "filter"
    /\ settings = DefaultSettings
    /\ total = 0
    /\ platform_counts = [p \in Platforms |-> 0]
    /\ candidate_heaps = [p \in Platforms |-> <<>>]
    /\ heap_counter = 0
    /\ engagements = <<>>
    /\ total_engagement = 0
    /\ seen = [p \in Platforms |-> 0]
    /\ lastDrop = NoDrop
    /\ maxDropped = [p \in Platforms |-> -1]
    /\ arrived = [p \in Platforms |-> <<>>]
    /\ candidate_items = <<>>
    /\ top_items = <<>>
    /\ sample_ret = NoSample
    /\ quota = NoQuota
    /\ embed_calls = 0
    /\ ex = IdleEx
    /\ mm = IdleMm
    /\ oracle_calls = 0
    /\ run \in {NewRun([n |-> n, bad |-> FALSE, report_language |-> l], FALSE) :
                    n \in 0..MaxFilterItems, l \in ReportLanguages}
    /\ db = NewDb(NoRecord)

\* preprocess, lines 42-49, for the next item of the list (candidate_items:
\* the items gone through, top_items: result)
FilterNext ==
    /\ pc = "filter"
    /\ run.i < run.dataset.n
    /\ \E it \in FilterItems :
          LET item == [it EXCEPT !.sid = run.i + 1]
          IN  /\ candidate_items' = Append(candidate_items, item)
              /\ top_items' =
                    IF \E k \in 1..Len(top_items) : top_items[k].sid = item.sid
                    THEN top_items
                    ELSE IF ~IsValidItem(item, TargetLanguage(run.dataset.report_language))
                         THEN top_items
                         ELSE Append(top_items, item)
    /\ run' = [run EXCEPT !.i = @ + 1]
    /\ UNCHANGED <<pc, settings, streamVars, sample_ret, quota, embed_calls, ex, mm, oracle_calls, db>>

\* preprocess, lines 51-52
FilterEnd ==
    /\ pc = "filter"
    /\ run.i = run.dataset.n
    /\ top_items' = ByEngagement(top_items)
    /\ pc' = "filtered"
    /\ UNCHANGED <<settings, streamVars, candidate_items, sample_ret, quota, embed_calls, ex, mm,
                   oracle_calls, taskVars>>

NextFilter == FilterNext \/ FilterEnd

SpecFilter == InitFilter /\ [][NextFilter]_vars

\* The length, bot-author and advertisement checks pass, the text is longer
\* than 50 characters and the detector fails on it
FailOpenCase(item) ==
    /\ item.text_len >= 10 /\ item.text_len <= 5000
    /\ ~item.author_bot /\ ~item.text_ad
    /\ item.text_len > 50
    /\ item.detect = "LangDetectException"

\* C20: for any target language an item whose text is longer than 50
\* characters and passes the length, bot-author and advertisement checks is
\* accepted whenever the language detector fails on it; the failure rejects
\* no item and does not stop the filtering: the items after it are gone
\* through and accepted or rejected on their own.
C20_DetectorFailOpen ==
    /\ \A j \in 1..Len(candidate_items) :
          FailOpenCase(candidate_items[j]) =>
              \E k \in 1..Len(top_items) : top_items[k] = candidate_items[j]
    /\ Len(candidate_items) = run.i
    /\ pc = "filtered" =>
          /\ run.i = run.dataset.n
          /\ \A j \in 1..Len(candidate_items) :
                (/\ candidate_items[j].text_len \in 10..50
                 /\ ~candidate_items[j].author_bot /\ ~candidate_items[j].text_ad)
                    => \E k \in 1..Len(top_items) : top_items[k] = candidate_items[j]
          /\ \A k \in 1..Len(top_items) :
                \E j \in 1..Len(candidate_items) : top_items[k] = candidate_items[j]

\* The detector fails on the first item, target language zh; the second
\* item, English, is gone through and rejected
C20_Witness ==
    /\ pc = "filtered"
    /\ run.dataset.report_language = "zh"
    /\ Len(candidate_items) = 2
    /\ FailOpenCase(candidate_items[1])
    /\ candidate_items[2].detect = "en" /\ candidate_items[2].text_len = 51
    /\ top_items = <<candidate_items[1]>>

\* C21: for any integer values of the numeric configuration, zero and
\* negative ones included, the run clamps the value to a safe one and never
\* fails because of it: no run ends with the error of a read of an empty
\* heap, whatever the per-group capacity is.
C21_ConfigNeverFatal ==
    /\ run.exc # "IndexError"
    /\ db.error_message # "IndexError"
    /\ Sampler(settings).max_items >= 1
    /\ Sampler(settings).target_count >= 1

HeapEntries(h) == {h[i] : i \in 1..Len(h)}

\* The entry of h with the lowest score and, among those, the smallest counter
LowestEntry(h) ==
    CHOOSE e \in HeapEntries(h) :
        \A f \in HeapEntries(h) : e[1] < f[1] \/ (e[1] = f[1] /\ e[2] <= f[2])

\* C22: when a group's heap is full an arriving item whose score equals
\* the minimum retained score is discarded and the heap is unchanged: an
\* arrival changes a full heap only with a strictly greater score. When it
\* does, the evicted entry is the one with the lowest score and, among the
\* entries with that score, the smallest sequence number.
C22_TieKeepsEarlier ==
    [][\A p \in Platforms :
          LET h == candidate_heaps[p]
              hn == candidate_heaps'[p]
          IN  (seen'[p] = seen[p] + 1 /\ Len(h) = Capacity /\ Capacity > 0) =>
                 /\ lastDrop'.kind \in {"rejected", "evicted"}
                 /\ lastDrop'.kind = "rejected" =>
                       /\ hn = h
                       /\ lastDrop'.counter = heap_counter'
                       /\ lastDrop'.score <= HeapMin(h)
                 /\ lastDrop'.kind = "evicted" =>
                       /\ lastDrop'.score = LowestEntry(h)[1]
                       /\ lastDrop'.counter = LowestEntry(h)[2]
                       /\ HeapEntries(hn) \ HeapEntries(h) # {}
                       /\ \A e \in HeapEntries(hn) \ HeapEntries(h) :
                             e[2] = heap_counter' /\ e[1] > HeapMin(h)
                       /\ HeapEntries(h) \ HeapEntries(hn) = {LowestEntry(h)}]_vars

\* An arrival with the minimum score of a full heap has been discarded
C22_Witness ==
    /\ lastDrop.kind = "rejected"
    /\ lastDrop.counter = heap_counter
    /\ Len(candidate_heaps[lastDrop.platform]) = Capacity
    /\ lastDrop.score = HeapMin(candidate_heaps[lastDrop.platform])

\* An entry has been evicted from a heap of two entries with one score
C22_WitnessEvicted ==
    /\ lastDrop.kind = "evicted"
    /\ Capacity = 2
    /\ \E e \in HeapEntries(candidate_heaps[lastDrop.platform]) :
          e[1] = lastDrop.score /\ e[2] > lastDrop.counter

\* The heap of a group whose items arrive alone, numbered from 1
RECURSIVE SoloHeap(_, _, _)
SoloHeap(items, k, limit) ==
    IF k = 0 THEN <<>>
    ELSE OfferToHeap(SoloHeap(items, k - 1, limit), limit,
                     GetEngagementScore(items[k]), k, items[k])

Retained(h) == {h[i][3] : i \in 1..Len(h)}

OtherHeapsUnchanged ==
    \A p \in Platforms :
        candidate_heaps'[p] # candidate_heaps[p] =>
            /\ seen'[p] = seen[p] + 1
            /\ \A q \in Platforms \ {p} :
                  candidate_heaps'[q] = candidate_heaps[q] /\ seen'[q] = seen[q]

RetainedAsAlone ==
    \A p \in Platforms :
        LET solo == SoloHeap(arrived[p], Len(arrived[p]), Capacity)
        IN  /\ Retained(candidate_heaps[p]) = Retained(solo)
            /\ [i \in 1..Len(solo) |-> solo[i][3]]
                  = [i \in 1..Len(candidate_heaps[p]) |-> candidate_heaps[p][i][3]]

\* C23: processing an item of platform p changes only p's heap, and what
\* a group retains depends only on the group's own items in their order:
\* it is what the group would retain if its items arrived alone, however
\* the items of the other groups are interleaved with them and although
\* the sequence counter is shared.
C23_GroupsIndependent == []RetainedAsAlone /\ [][OtherHeapsUnchanged]_vars

\* Two groups interleaved, each with an item dropped
C23_Witness ==
    /\ seen["reddit"] = 2 /\ seen["youtube"] = 2
    /\ Capacity = 1
    /\ candidate_heaps["reddit"][1][2] = 3
    /\ candidate_heaps["youtube"][1][2] = 4
    /\ total = 4

\* The rows of platform p among all rows of the task
RowsOf(p) == Cardinality({i \in 1..run.dataset.n : DatasetRow(run.dataset, i).platform = p})

RowEngagement(i) == WeightedEngagementFromMetrics(DatasetRow(run.dataset, i).metrics)

\* The run has just committed column f: the record changes at the commit
\* of line 166 (then pc is alert) and at the commit of line 175 (then failed)
RunWrote(f) == pc \in {"alert", "failed"} /\ f \in DOMAIN db.record /\ db.record[f].by = "run"

\* C24: heat_index, total_items and platform_distribution of the record are
\* functions of all rows of the task: rows that fail the filter, and items
\* the heaps reject or evict, count as every other row, and the per-group
\* capacity, the sampling parameters and the replies of the oracle have no
\* part in them.
RecordFromAllRows ==
    /\ RunWrote("total_items") => db.record["total_items"].value = run.dataset.n
    /\ RunWrote("platform_distribution") =>
          db.record["platform_distribution"].value =
              [p \in {q \in Platforms : RowsOf(q) > 0} |->
                  RoundHalfEven(RowsOf(p) * 100, run.dataset.n)]
    /\ RunWrote("heat_index") =>
          LET h == db.record["heat_index"].value
          IN  /\ ~h.zero
              /\ h.total_items = run.dataset.n
              /\ h.platforms = Cardinality({q \in Platforms : RowsOf(q) > 0})
              /\ LET k == Max2(1, (run.dataset.n * 9) \div 10)
                     v == h.p90_engagement
                 IN  /\ Cardinality({i \in 1..run.dataset.n : RowEngagement(i) < v}) < k
                     /\ Cardinality({i \in 1..run.dataset.n : RowEngagement(i) <= v}) >= k
              /\ Len(engagements) = run.dataset.n
              /\ \A i \in 1..run.dataset.n : engagements[i] = RowEngagement(i)
              /\ h.total_engagement = total_engagement
    /\ Len(engagements) = total
    /\ total = 0 => total_engagement = 0

\* total_engagement grows by the engagement of every row read, valid or not
EveryRowCounts ==
    /\ total' \in {total, total + 1}
    /\ total' = total => total_engagement' = total_engagement
    /\ total' = total + 1 =>
          /\ total_engagement' = total_engagement + RowEngagement(total')
          /\ engagements' = Append(engagements, RowEngagement(total'))

MaxTopItems == 5

TopPlatforms == {"reddit", "youtube"}

TopEngagements == {2, 4, 10}

TopLimits == {1, 2, 4}

TopItem(j, platform, e) ==
    [sid |-> j, platform |-> platform, valid |-> TRUE,
     metrics |-> [upvotes |-> e, num_comments |-> 0, views |-> 0, likes |-> 0]]

TopInputs ==
    UNION {{[j \in 1..n |-> TopItem(j, f[j][1], f[j][2])] :
                f \in {g \in [1..n -> TopPlatforms \X TopEngagements] :
                           \A j \in 1..(n - 1) : g[j][2] >= g[j + 1][2]}} :
           n \in 0..MaxTopItems}

InitTop ==
    /\ pc = "extract_top"
    /\ settings \in {[DefaultSettings EXCEPT !.semantic_sampling_max_items = l] : l \in TopLimits}
    /\ total = 0
    /\ platform_counts = [p \in Platforms |-> 0]
    /\ candidate_heaps = [p \in Platforms |-> <<>>]
    /\ heap_counter = 0
    /\ engagements = <<>>
    /\ total_engagement = 0
    /\ seen = [p \in Platforms |-> 0]
    /\ lastDrop = NoDrop
    /\ maxDropped = [p \in Platforms |-> -1]
    /\ arrived = [p \in Platforms |-> <<>>]
    /\ candidate_items \in TopInputs
    /\ top_items = <<>>
    /\ sample_ret = NoSample
    /\ quota = NoQuota
    /\ embed_calls = 0
    /\ ex = IdleEx
    /\ mm = IdleMm
    /\ oracle_calls = 0
    /\ run = IdleRun
    /\ db = NewDb(NoRecord)

\* _run_analysis, lines 192-196: the candidates for the semantic sampler
ExtractTop ==
    /\ pc = "extract_top"
    /\ top_items' = ExtractTopItems(candidate_items, settings.semantic_sampling_max_items)
    /\ pc' = "extracted"
    /\ UNCHANGED <<settings, streamVars, candidate_items, sample_ret, quota, embed_calls,
                   ex, mm, oracle_calls, taskVars>>

NextTop == ExtractTop

SpecTop == InitTop /\ [][NextTop]_vars

\* lines 105-113: what the per-platform pass selects
PlatformPass(items, limit) ==
    LET order == PlatformsInOrder(items)
        per_platform == Max2(1, limit \div Max2(Len(order), 1))
        platform_items(j) == ByEngagement(OfPlatform(items, order[j]))
    IN  Concat([j \in 1..Len(order) |->
                   Take(IF Engaging(platform_items(j)) = <<>> THEN platform_items(j)
                        ELSE Engaging(platform_items(j)), per_platform)])

\* C25: with platform balance on, extract_top_items returns at most limit
\* items, none twice, all from its input; the slots the per-platform pass
\* leaves free are filled from every item not taken in that pass, in
\* descending engagement order, so the result is full whenever the input has
\* enough items and no item left out has a strictly higher engagement score
\* than a backfilled one.
C25_TopItemsBackfill ==
    pc = "extracted" =>
        LET limit == settings.semantic_sampling_max_items
            pass == Range(PlatformPass(candidate_items, limit))
            backfilled == Range(top_items) \ pass
            left_out == Range(candidate_items) \ Range(top_items)
        IN  /\ Len(top_items) <= limit
            /\ Cardinality(Range(top_items)) = Len(top_items)
            /\ Range(top_items) \subseteq Range(candidate_items)
            /\ Len(top_items) = Min2(limit, Len(candidate_items))
            /\ \A x \in left_out : \A y \in backfilled :
                  GetEngagementScore(x) <= GetEngagementScore(y)

\* The part of C25 that every call keeps
TopItemsBounded ==
    pc = "extracted" =>
        /\ Len(top_items) <= settings.semantic_sampling_max_items
        /\ Cardinality(Range(top_items)) = Len(top_items)
        /\ Range(top_items) \subseteq Range(candidate_items)

\* An item of the first per_platform places of its platform that is below
\* min_engagement is in neither the pass nor the backfill
SkippedLowItem ==
    /\ pc = "extracted"
    /\ Len(top_items) < Min2(settings.semantic_sampling_max_items, Len(candidate_items))

\* An item left out although a backfilled item has a lower engagement score
LeftOutAboveBackfilled ==
    /\ pc = "extracted"
    /\ \E x \in Range(candidate_items) \ Range(top_items) :
          \E y \in Range(top_items) \
                      Range(PlatformPass(candidate_items, settings.semantic_sampling_max_items)) :
              GetEngagementScore(x) > GetEngagementScore(y)

(***************************************************************************)
(* The quota step of _cluster_and_select on its own: any cluster sizes     *)
(* KMeans can give for n points and k clusters, any target_count below n   *)
(***************************************************************************)
MaxQuotaPoints == 9

QuotaSettings ==
    {[DefaultSettings EXCEPT !.semantic_sampling_k_min = k] : k \in {3, 4}}

\* the labellings of n points with the given cluster sizes, cluster by cluster
BlockLabels(sizes, n) ==
    [i \in 1..n |->
        CHOOSE c \in DOMAIN sizes :
            /\ SumOver(sizes, {d \in DOMAIN sizes : d < c}) < i
            /\ i <= SumOver(sizes, {d \in DOMAIN sizes : d <= c})]

SizeVectors(n, k) == {s \in [1..k -> 0..n] : SumOver(s, 1..k) = n}

InitQuota ==
    /\ pc = "quota"
    /\ settings \in QuotaSettings
    /\ total = 0
    /\ platform_counts = [p \in Platforms |-> 0]
    /\ candidate_heaps = [p \in Platforms |-> <<>>]
    /\ heap_counter = 0
    /\ engagements = <<>>
    /\ total_engagement = 0
    /\ seen = [p \in Platforms |-> 0]
    /\ lastDrop = NoDrop
    /\ maxDropped = [p \in Platforms |-> -1]
    /\ arrived = [p \in Platforms |-> <<>>]
    /\ candidate_items = <<>>
    /\ top_items = <<>>
    /\ sample_ret = NoSample
    /\ quota = NoQuota
    /\ embed_calls = 0
    /\ ex = IdleEx
    /\ mm = IdleMm
    /\ oracle_calls = 0
    /\ run = IdleRun
    /\ db = NewDb(NoRecord)

\* _cluster_and_select, lines 82-112, for n points and a target below n
ClusterQuota ==
    /\ pc = "quota"
    /\ \E n \in 2..MaxQuotaPoints :
          LET s == Sampler(settings)
              k == Min2(s.k_max, Max2(s.k_min, IntSqrt(n)))
          IN  /\ k < n
              /\ \E target_count \in 1..(n - 1), sizes \in SizeVectors(n, k) :
                    quota' = QuotaStep(BlockLabels(sizes, n), n, target_count)
    /\ pc' = "quota_done"
    /\ UNCHANGED <<settings, streamVars, candidate_items, top_items, sample_ret, embed_calls,
                   ex, mm, oracle_calls, taskVars>>

NextQuota == ClusterQuota

SpecQuota == InitQuota /\ [][NextQuota]_vars

\* desired as line 100 computes it, before any decrement
FirstDesired ==
    [c \in DOMAIN quota.cluster_sizes |->
        Max2(1, RoundHalfEven(quota.target_count * quota.cluster_sizes[c], quota.n))]

\* C26: when the quotas max(1, round(target_count * size(c) / N)) sum to
\* more than target_count, quotas above 1 are decremented until the quotas
\* sum to exactly target_count or every quota is 1.
C26_QuotaReachesTarget ==
    (quota # NoQuota /\ SumOver(FirstDesired, DOMAIN FirstDesired) > quota.target_count) =>
        \/ SumOver(quota.desired, DOMAIN quota.desired) = quota.target_count
        \/ \A c \in DOMAIN quota.desired : quota.desired[c] = 1

\* What the single pass of lines 107-112 does keep: every quota is at least
\* 1 and at most one below its first value, and nothing is decremented when
\* the first quotas fit
QuotaOnePass ==
    quota # NoQuota =>
        /\ DOMAIN quota.desired = DOMAIN FirstDesired
        /\ \A c \in DOMAIN quota.desired :
              /\ quota.desired[c] >= 1
              /\ quota.desired[c] \in {FirstDesired[c], FirstDesired[c] - 1}
        /\ SumOver(FirstDesired, DOMAIN FirstDesired) <= quota.target_count =>
              quota.desired = FirstDesired
        /\ SumOver(quota.desired, DOMAIN quota.desired) >=
              Min2(quota.target_count, SumOver(FirstDesired, DOMAIN FirstDesired))

\* The quotas still sum to more than target_count after the pass and one of
\* them is above 1
QuotaAboveTarget ==
    /\ quota # NoQuota
    /\ SumOver(quota.desired, DOMAIN quota.desired) > quota.target_count
    /\ \E c \in DOMAIN quota.desired : quota.desired[c] > 1

(***************************************************************************)
(* The outline validator                                                   *)
(***************************************************************************)
\* the lines of the block under line i: the following lines indented deeper
Beneath(code, i) ==
    {j \in (i + 1)..Len(code) : \A m \in (i + 1)..j : code[m].indent > code[i].indent}

SentimentBranches(code) ==
    {i \in 1..Len(code) : code[i].indent >= 4 /\ code[i].text = Plain("Sentiment")}

\* the outline the validator has accepted
OracleAccepted == mm.st = "returned" /\ mm.via \in {"draft", "repair"}

\* C27: validate_mermaid_output accepts an outline only if its first
\* non-blank line is the root marker, it has exactly one root-declaration
\* line, exactly one sentiment-branch line with exactly one label line
\* beneath that branch, and at least two opinion-branch lines at the
\* sentiment branch's indentation level.
C27_AcceptedOutline ==
    OracleAccepted =>
        LET code == mm.result
        IN  /\ code # <<>>
            /\ code[1].text = Plain("mindmap")
            /\ Cardinality({i \in 1..Len(code) :
                               code[i].indent >= 2 /\ code[i].text.kind = "root"}) = 1
            /\ Cardinality(SentimentBranches(code)) = 1
            /\ \A s \in SentimentBranches(code) :
                  /\ Cardinality(Beneath(code, s)) = 1
                  /\ Cardinality({i \in 1..Len(code) :
                                     /\ code[i].indent = code[s].indent
                                     /\ code[i].text # Plain("Sentiment")}) >= 2

\* What the validator does require: a line indented by six or more that is
\* no root declaration, wherever it stands
AcceptedOutlineHasDeepLine ==
    OracleAccepted =>
        LET code == mm.result
        IN  /\ code # <<>>
            /\ code[1].text = Plain("mindmap")
            /\ Cardinality({i \in 1..Len(code) :
                               code[i].indent >= 2 /\ code[i].text.kind = "root"}) = 1
            /\ Cardinality(SentimentBranches(code)) = 1
            /\ \E i \in 1..Len(code) : code[i].indent >= 6 /\ code[i].text.kind # "root"
            /\ Cardinality({i \in 1..Len(code) :
                               /\ code[i].indent \in 4..5
                               /\ code[i].text # Plain("Sentiment")}) >= 2

\* An accepted outline with two lines under its Sentiment branch
AcceptedTwoLabels == OracleAccepted /\ mm.result = TwoLabelMindmap

\* An accepted outline with no line under its Sentiment branch
AcceptedBareSentiment == OracleAccepted /\ mm.result = BareSentimentMindmap

(***************************************************************************)
(* The diagram get_task_result serves                                      *)
(***************************************************************************)
\* MermaidGenerator.build_safe_mindmap
BuildSafeMindmap(keyword, key_opinions, sentiment_score) ==
    GenerateFallback(keyword, MermaidNormalizeKeyOpinions(key_opinions),
                     GetSentimentLabel(sentiment_score))

\* get_task_result, lines 172-180: the stored code, rebuilt when it is not
\* empty and does not validate
ServedMermaidCode(mermaid_code, keyword, key_opinions, sentiment_score) ==
    IF mermaid_code # <<>> /\ ~ValidateMermaidOutput(mermaid_code).valid
    THEN BuildSafeMindmap(keyword, key_opinions, sentiment_score)
    ELSE mermaid_code

\* C28: every diagram generate returns, from the oracle or from the
\* deterministic fallback, and every diagram get_task_result serves for it
\* after its own re-validation, satisfies validate_mermaid_output, for every
\* clustering payload, the one-opinion placeholder included.
C28_DiagramsValidate ==
    mm.st = "returned" =>
        /\ ValidateMermaidOutput(mm.result).valid
        /\ ValidateMermaidOutput(ServedMermaidCode(mm.result, mm.keyword, mm.key_opinions,
                                                   mm.sentiment_score)).valid

\* What does hold: a diagram taken from the oracle validates, and so does
\* the fallback for two or more opinions
OracleDiagramsValidate ==
    mm.st = "returned" =>
        /\ mm.via \in {"draft", "repair"} => ValidateMermaidOutput(mm.result).valid
        /\ (mm.via = "fallback" /\ Len(MermaidNormalizeKeyOpinions(mm.key_opinions)) >= 2) =>
              ValidateMermaidOutput(mm.result).valid

\* The fallback for the placeholder of a failed clustering, served as it is
\* rebuilt: one opinion branch
PlaceholderDiagramInvalid ==
    /\ mm.st = "returned"
    /\ mm.via = "fallback"
    /\ mm.key_opinions = PlaceholderOpinions
    /\ ~ValidateMermaidOutput(mm.result).valid
    /\ ServedMermaidCode(mm.result, mm.keyword, mm.key_opinions, mm.sentiment_score) = mm.result

(***************************************************************************)
(* A task from collect_and_analyze to the end of analyze_task, every       *)
(* worker task running to its end: no worker is killed, and a task that    *)
(* can take a step does take one.                                          *)
(***************************************************************************)
TaskDatasets == {[n |-> n, bad |-> b] : n \in {0, 3}, b \in BOOLEAN}

\* The task row as create_task leaves it
PendingDb(record) == [NewDb(record) EXCEPT !.task_status = "PENDING", !.progress = 0]

InitTask ==
    /\ pc = "collect_and_analyze"
    /\ settings \in {DefaultSettings, SmallSampleSettings}
    /\ total = 0
    /\ platform_counts = [p \in Platforms |-> 0]
    /\ candidate_heaps = [p \in Platforms |-> <<>>]
    /\ heap_counter = 0
    /\ engagements = <<>>
    /\ total_engagement = 0
    /\ seen = [p \in Platforms |-> 0]
    /\ lastDrop = NoDrop
    /\ maxDropped = [p \in Platforms |-> -1]
    /\ arrived = [p \in Platforms |-> <<>>]
    /\ candidate_items = <<>>
    /\ top_items = <<>>
    /\ sample_ret = NoSample
    /\ quota = NoQuota
    /\ embed_calls = 0
    /\ ex = IdleEx
    /\ mm = IdleMm
    /\ oracle_calls = 0
    /\ run \in {[NewRun(d, s) EXCEPT !.task_status = "PENDING"] : d \in TaskDatasets, s \in BOOLEAN}
    /\ db \in {PendingDb(NoRecord), PendingDb(EarlierRecord)}

\* collect_and_analyze, lines 30-32
CollectAndAnalyze ==
    /\ pc = "collect_and_analyze"
    /\ run' = [run EXCEPT !.task_status = "RUNNING"]
    /\ db' = [db EXCEPT !.task_status = "RUNNING", !.progress = 5]
    /\ pc' = "dispatch_chord"
    /\ UNCHANGED pipeVars

\* collect_and_analyze, lines 34-82: no platforms, the chord is sent, or
\* sending it raises and the handler of lines 78-82 marks the task
DispatchChord ==
    /\ pc = "dispatch_chord"
    /\ \E outcome \in {"no_platforms", "sent", "raise"} :
          IF outcome = "sent"
          THEN /\ pc' = "collecting"
               /\ db' = [db EXCEPT !.progress = 10]
               /\ run' = run
          ELSE /\ pc' = "collect_failed"
               /\ run' = [run EXCEPT !.task_status = "FAILED",
                                     !.task_error = IF outcome = "raise" THEN "chord"
                                                    ELSE "No platforms configured"]
               /\ db' = [db EXCEPT !.task_status = "FAILED",
                                   !.progress = IF outcome = "raise" THEN 10 ELSE @,
                                   !.error_message = IF outcome = "raise" THEN "chord"
                                                     ELSE "No platforms configured"]
    /\ UNCHANGED pipeVars

\* collect_platform_data for every platform: each returns, with or without
\* rows saved, and the chord calls finalize_collection (lines 184-189)
CollectPlatformData ==
    /\ pc = "collecting"
    /\ pc' = "finalize"
    /\ db' = [db EXCEPT !.progress = 50]
    /\ UNCHANGED <<run, pipeVars>>

\* Every step but Prepare
TaskSteps ==
    \/ CollectAndAnalyze
    \/ DispatchChord
    \/ CollectPlatformData
    \/ FinalizeCollection
    \/ StreamNext
    \/ StreamEnd
    \/ SamplerSample
    \/ SentimentStartBatch
    \/ AnalyzeJsonDraft
    \/ AnalyzeJsonOnDraft
    \/ AnalyzeJsonOnRepair
    \/ SentimentBatchDone
    \/ SentimentDone
    \/ ClusteringDone
    \/ MermaidDraft
    \/ MermaidOnDraft
    \/ MermaidOnRepair
    \/ MermaidDone
    \/ AssignField
    \/ AddRecord
    \/ CommitCompleted
    \/ CheckAndCreateAlert
    \/ ExceptHandler
    \/ SoftTimeLimit

NextTask == TaskSteps \/ Prepare

\* A worker that can take a step takes one.  Where Prepare is enabled the
\* soft time limit is enabled too, so TaskSteps is enabled wherever NextTask
\* is and its weak fairness is that of NextTask.
SpecTask == InitTask /\ [][NextTask]_vars /\ WF_vars(TaskSteps)

\* C29: every task that collect_and_analyze moves to RUNNING eventually
\* reaches COMPLETED or FAILED, whatever the outcome of the collection, of
\* finalize_collection (a failed dispatch of the analysis included) and of
\* analyze_task.
C29_RunningEnds ==
    (db.task_status = "RUNNING") ~> (db.task_status \in {"COMPLETED", "FAILED"})

\* What does hold: once analyze_task has been sent, the task ends
SentTaskEnds ==
    (pc = "stream") ~> (db.task_status \in {"COMPLETED", "FAILED"})

\* finalize_collection has returned without sending analyze_task and the
\* task is RUNNING
DispatchFailedRunning == pc = "dispatch_failed" /\ db.task_status = "RUNNING"

(***************************************************************************)
(* The task status and the record at the end of analyze_task               *)
(***************************************************************************)
\* analyze_task has returned or has raised out of its handler
AnalyzeTaskEnded == pc \in {"done", "failed", "no_data", "no_valid"}

\* C30: when analyze_task ends, the task is COMPLETED if and only if this
\* run committed an analysis row: a task left FAILED has no row committed by
\* this run, also when the failure comes after the commit of the row, as in
\* the alert check.
C30_CompletedIffRecord ==
    AnalyzeTaskEnded =>
        /\ db.task_status \in {"COMPLETED", "FAILED"}
        /\ db.task_status = "COMPLETED" <=> db.record_commits > 0

\* What does hold: a COMPLETED task has the row of this run, and a run that
\* failed before it touched the row has committed none
CompletedHasRecord ==
    AnalyzeTaskEnded =>
        /\ db.task_status \in {"COMPLETED", "FAILED"}
        /\ db.task_status = "COMPLETED" =>
              /\ db.record_commits = 1
              /\ db.writer = "line 166"
              /\ \A f \in Range(RecordFields) : db.record[f].by = "run"
        /\ pc \in {"no_data", "no_valid"} => db.record_commits = 0

\* The alert check raises after the commit of line 166: the handler marks
\* the task FAILED and the row stays
FailedAfterCommit ==
    /\ pc = "failed"
    /\ db.task_status = "FAILED"
    /\ db.error_message = "alert"
    /\ db.writer = "line 166"
    /\ db.record_commits = 1
    /\ \A f \in Range(RecordFields) : db.record[f].by = "run"

====
